---- MODULE Spec2Model ----
(***************************************************************************)
(* A model of pg_search's schema resolver (src/pg_search/src/schema/mod.rs)*)
(* and query compiler (src/pg_search/src/query/mod.rs).                    *)
(*                                                                         *)
(* A schema is built once from a list of declarations                      *)
(* (SearchIndexSchema::new), may be written to disk and read back (serde,  *)
(* which drops the lookup cache), and is then consulted by resolve         *)
(* (as_field_type) and by query compilation (into_tantivy_query).  Before  *)
(* the build, column types are inferred (SearchFieldType::try_from), field *)
(* configurations are read from and written to JSON, and queries are       *)
(* written to and read back from their wire form.  SpecThreads runs        *)
(* several threads on one shared schema.                                   *)
(*                                                                         *)
(* Positions and field ids are 0-based as in the source; TLA+ sequences    *)
(* are 1-based, so element i of a Vec is seq[i + 1].                       *)
(***************************************************************************)
EXTENDS Integers, Sequences, FiniteSets, TLC

VARIABLES args, build, schema, call, ret, threads

vars == <<args, build, schema, call, ret, threads>>

----------------------------------------------------------------------------
(* Results: Result::Ok / Result::Err, a panic, and Option.                 *)

Ok(v) == [tag |-> "Ok", val |-> v]

Err(e) == [tag |-> "Err", err |-> e]

Panic(m) == [tag |-> "Panic", msg |-> m]

Some(v) == [tag |-> "Some", val |-> v]

None == [tag |-> "None"]

----------------------------------------------------------------------------
(* Bounds of the explored inputs.                                          *)

MaxFields == 3

MaxKey == 1

----------------------------------------------------------------------------
(* SearchFieldType and SearchFieldConfig.                                  *)

SearchFieldType == {"Text", "I64", "F64", "U64", "Bool", "Json", "Date"}

default_as_true == TRUE

default_as_freqs_and_positions == "WithFreqsAndPositions"

default_text ==
    [family |-> "Text", indexed |-> default_as_true, fast |-> FALSE,
     stored |-> default_as_true, fieldnorms |-> default_as_true,
     tokenizer |-> "default", record |-> default_as_freqs_and_positions,
     normalizer |-> "raw"]

default_json ==
    [family |-> "Json", indexed |-> default_as_true, fast |-> FALSE,
     stored |-> default_as_true, expand_dots |-> default_as_true,
     tokenizer |-> "default", record |-> default_as_freqs_and_positions,
     normalizer |-> "raw"]

default_numeric ==
    [family |-> "Numeric", indexed |-> default_as_true,
     fast |-> default_as_true, stored |-> default_as_true]

default_boolean ==
    [family |-> "Boolean", indexed |-> default_as_true,
     fast |-> default_as_true, stored |-> default_as_true]

default_date ==
    [family |-> "Date", indexed |-> default_as_true,
     fast |-> default_as_true, stored |-> default_as_true]

Ctid == [family |-> "Ctid"]

----------------------------------------------------------------------------
(* impl TryFrom<&PgOid> for SearchFieldType.  A PgOid is Invalid, a        *)
(* Custom(oid) or a BuiltIn(PgBuiltInOids).                                *)

Invalid == [pg |-> "Invalid"]

Custom(oid) == [pg |-> "Custom", custom |-> oid]

BuiltIn(builtin) == [pg |-> "BuiltIn", builtin |-> builtin]

(* SearchIndexSchemaError::InvalidPgOid *)
InvalidPgOid(pg_oid) == [kind |-> "InvalidPgOid", pg_oid |-> pg_oid]

(* try_from whose fallback arms name the Text type. *)
try_from_default_text(pg_oid) ==
    IF pg_oid.pg = "BuiltIn"
    THEN CASE pg_oid.builtin \in {"INT2OID", "INT4OID", "INT8OID"} -> Ok("I64")
           [] pg_oid.builtin \in {"OIDOID", "XIDOID"} -> Ok("U64")
           [] pg_oid.builtin \in {"FLOAT4OID", "FLOAT8OID", "NUMERICOID"} ->
                  Ok("F64")
           [] pg_oid.builtin = "BOOLOID" -> Ok("Bool")
           [] pg_oid.builtin \in {"JSONOID", "JSONBOID"} -> Ok("Json")
           [] pg_oid.builtin \in {"DATEOID", "TIMESTAMPOID", "TIMESTAMPTZOID",
                                  "TIMEOID", "TIMETZOID"} -> Ok("Date")
           [] OTHER -> Ok("Text")
    ELSE Ok("Text")

try_from(pg_oid) ==
    IF pg_oid.pg = "BuiltIn"
    THEN CASE pg_oid.builtin \in {"TEXTOID", "VARCHAROID", "UUIDOID"} ->
                  Ok("Text")
           [] pg_oid.builtin \in {"INT2OID", "INT4OID", "INT8OID"} -> Ok("I64")
           [] pg_oid.builtin \in {"OIDOID", "XIDOID"} -> Ok("U64")
           [] pg_oid.builtin \in {"FLOAT4OID", "FLOAT8OID", "NUMERICOID"} ->
                  Ok("F64")
           [] pg_oid.builtin = "BOOLOID" -> Ok("Bool")
           [] pg_oid.builtin \in {"JSONOID", "JSONBOID"} -> Ok("Json")
           [] pg_oid.builtin \in {"DATEOID", "TIMESTAMPOID", "TIMESTAMPTZOID",
                                  "TIMEOID", "TIMETZOID"} -> Ok("Date")
           [] OTHER -> Err(InvalidPgOid(pg_oid))
    ELSE Err(InvalidPgOid(pg_oid))

----------------------------------------------------------------------------
(* From<SearchFieldConfig> for the engine's option types.  Each conversion *)
(* panics on a configuration of another family.                            *)

TextOptionsFrom(config) ==
    IF config.family = "Text"
    THEN Ok([stored |-> config.stored,
             fast |-> IF config.fast THEN Some(config.normalizer) ELSE None,
             indexing |-> IF config.indexed
                          THEN Some([record |-> config.record,
                                     fieldnorms |-> config.fieldnorms,
                                     tokenizer |-> config.tokenizer])
                          ELSE None])
    ELSE Panic("attemped to convert non-text search field config to tantivy text config")

NumericOptionsFrom(config) ==
    IF config.family \in {"Numeric", "Boolean"}
    THEN Ok([stored |-> config.stored, fast |-> config.fast,
             indexed |-> config.indexed])
    ELSE Panic("attemped to convert non-numeric search field config to tantivy numeric config")

JsonObjectOptionsFrom(config) ==
    IF config.family = "Json"
    THEN Ok([stored |-> config.stored,
             fast |-> IF config.fast THEN Some(config.normalizer) ELSE None,
             expand_dots |-> config.expand_dots,
             indexing |-> IF config.indexed
                          THEN Some([record |-> config.record,
                                     tokenizer |-> config.tokenizer])
                          ELSE None])
    ELSE Panic("attemped to convert non-json search field config to tantivy json config")

DateOptionsFrom(config) ==
    IF config.family = "Date"
    THEN Ok([stored |-> config.stored, fast |-> config.fast,
             indexed |-> config.indexed])
    ELSE Panic("attemped to convert non-date search field config to tantivy date config")

----------------------------------------------------------------------------
(* The engine's schema builder: a Vec of field entries; the Field handed    *)
(* out for an entry is its position.  Registration of a name that is        *)
(* already registered is rejected (the build does not survive it).          *)

EntryNames(builder) == {builder[i].name : i \in 1..Len(builder)}

add_field(builder, name, field_type, options) ==
    IF name \in EntryNames(builder)
    THEN Panic("Field already exists in schema")
    ELSE Ok([field |-> Len(builder),
             builder |-> Append(builder, [name |-> name,
                                          field_type |-> field_type,
                                          options |-> options])])

(* INDEXED | STORED | FAST *)
CtidOptions == [stored |-> TRUE, fast |-> TRUE, indexed |-> TRUE]

(* register_field that registers a Ctid declaration under the physical    *)
(* type of its logical type.                                               *)
register_field_ctid_by_type(builder, name, config, field_type) ==
    LET conv == CASE config = Ctid -> Ok(CtidOptions)
                  [] field_type = "Text" -> TextOptionsFrom(config)
                  [] field_type \in {"I64", "U64", "F64", "Bool"} ->
                         NumericOptionsFrom(config)
                  [] field_type = "Json" -> JsonObjectOptionsFrom(config)
                  [] field_type = "Date" -> DateOptionsFrom(config)
        physical == CASE field_type = "Text" -> "Str"
                      [] field_type = "Json" -> "JsonObject"
                      [] OTHER -> field_type
    IN  IF conv.tag = "Ok"
        THEN add_field(builder, name, physical, conv.val)
        ELSE conv

(* The match of SearchIndexSchema::new that registers one declaration.     *)
register_field(builder, name, config, field_type) ==
    IF config = Ctid
    THEN add_field(builder, name, "U64", CtidOptions)
    ELSE LET conv == CASE field_type = "Text" -> TextOptionsFrom(config)
                       [] field_type \in {"I64", "U64", "F64", "Bool"} ->
                              NumericOptionsFrom(config)
                       [] field_type = "Json" -> JsonObjectOptionsFrom(config)
                       [] field_type = "Date" -> DateOptionsFrom(config)
             physical == CASE field_type = "Text" -> "Str"
                           [] field_type = "I64" -> "I64"
                           [] field_type = "U64" -> "U64"
                           [] field_type = "F64" -> "F64"
                           [] field_type = "Bool" -> "Bool"
                           [] field_type = "Json" -> "JsonObject"
                           [] field_type = "Date" -> "Date"
         IN  IF conv.tag = "Ok"
             THEN add_field(builder, name, physical, conv.val)
             ELSE conv

----------------------------------------------------------------------------
(* SearchIndexSchema.                                                      *)

RECURSIVE build_lookup_from(_, _, _)
build_lookup_from(search_fields, idx, lookup) ==
    IF idx >= Len(search_fields)
    THEN lookup
    ELSE build_lookup_from(search_fields, idx + 1,
                           (search_fields[idx + 1].name :> idx) @@ lookup)

(* build_lookup with every position one too far. *)
build_lookup_off_by_one(search_fields) ==
    LET lookup == build_lookup_from(search_fields, 0, <<>>)
    IN  [n \in DOMAIN lookup |-> lookup[n] + 1]

(* HashMap::insert of every (name, idx) in order: a later entry replaces   *)
(* an earlier one of the same name.                                        *)
build_lookup(search_fields) == build_lookup_from(search_fields, 0, <<>>)

(* new_loop that drops a declaration whose registration is rejected and  *)
(* goes on with the next one.                                             *)
RECURSIVE new_loop_ignoring_rejection(_, _, _, _, _)
new_loop_ignoring_rejection(fields, index, builder, search_fields, ctid_index) ==
    IF index >= Len(fields)
    THEN Ok([builder |-> builder, search_fields |-> search_fields,
             ctid_index |-> ctid_index])
    ELSE LET d == fields[index + 1]
             ctid_next == IF d.config = Ctid THEN index ELSE ctid_index
             added == register_field(builder, d.name, d.config, d.type_)
         IN  IF added.tag = "Ok"
             THEN new_loop_ignoring_rejection(fields, index + 1, added.val.builder,
                           Append(search_fields,
                                  [id |-> added.val.field, name |-> d.name,
                                   config |-> d.config, type_ |-> d.type_]),
                           ctid_next)
             ELSE new_loop_ignoring_rejection(fields, index + 1, builder,
                                              search_fields, ctid_index)

RECURSIVE new_loop(_, _, _, _, _)
new_loop(fields, index, builder, search_fields, ctid_index) ==
    IF index >= Len(fields)
    THEN Ok([builder |-> builder, search_fields |-> search_fields,
             ctid_index |-> ctid_index])
    ELSE LET d == fields[index + 1]
             ctid_next == IF d.config = Ctid THEN index ELSE ctid_index
             added == register_field(builder, d.name, d.config, d.type_)
         IN  IF added.tag = "Ok"
             THEN new_loop(fields, index + 1, added.val.builder,
                           Append(search_fields,
                                  [id |-> added.val.field, name |-> d.name,
                                   config |-> d.config, type_ |-> d.type_]),
                           ctid_next)
             ELSE added

SearchIndexSchema_new(fields, key_index) ==
    LET looped == new_loop(fields, 0, <<>>, <<>>, 0)
    IN  IF looped.tag = "Ok"
        THEN Ok([fields |-> looped.val.search_fields,
                 key |-> key_index,
                 ctid |-> looped.val.ctid_index,
                 schema |-> looped.val.builder,
                 lookup |-> Some(build_lookup(looped.val.search_fields))])
        ELSE looped

(* Vec::get *)
VecGet(vec, i) == IF i >= 0 /\ i < Len(vec) THEN Some(vec[i + 1]) ELSE None

(* HashMap::get *)
MapGet(map, k) == IF k \in DOMAIN map THEN Some(map[k]) ELSE None

ctid_field(self) ==
    LET f == VecGet(self.fields, self.ctid)
    IN  IF f.tag = "Some" THEN Ok(f.val)
        ELSE Panic("ctid field should be present on search schema")

key_field(self) ==
    LET f == VecGet(self.fields, self.key)
    IN  IF f.tag = "Some" THEN Ok(f.val)
        ELSE Panic("key field should be present on search schema")

new_document(self) ==
    LET k == key_field(self)
        c == ctid_field(self)
    IN  IF k.tag # "Ok" THEN k
        ELSE IF c.tag # "Ok" THEN c
        ELSE Ok([doc |-> <<>>, key |-> k.val.id, ctid |-> c.val.id])

(* get_search_field that finds nothing when the cache is absent. *)
get_search_field_no_rebuild(self, name) ==
    IF self.lookup.tag = "Some"
    THEN LET idx == MapGet(self.lookup.val, name)
         IN  IF idx.tag = "Some" THEN VecGet(self.fields, idx.val) ELSE None
    ELSE None

get_search_field(self, name) ==
    IF self.lookup.tag = "Some"
    THEN LET idx == MapGet(self.lookup.val, name)
         IN  IF idx.tag = "Some" THEN VecGet(self.fields, idx.val) ELSE None
    ELSE LET lookup == build_lookup(self.fields)
             idx == MapGet(lookup, name)
         IN  IF idx.tag = "Some" THEN VecGet(self.fields, idx.val) ELSE None

(* serde: lookup is skip_serializing, the other four fields are written.   *)
Serialize(self) ==
    [fields |-> self.fields, key |-> self.key, ctid |-> self.ctid,
     schema |-> self.schema]

(* serde: an Option field missing from the document reads as None.         *)
Deserialize(doc) ==
    [fields |-> doc.fields, key |-> doc.key, ctid |-> doc.ctid,
     schema |-> doc.schema,
     lookup |-> IF "lookup" \in DOMAIN doc THEN doc.lookup ELSE None]

(* Schema::get_field_entry(field).field_type() *)
get_field_type(self, field) == self.schema[field + 1].field_type

(* impl AsFieldType<String> for SearchIndexSchema *)
schema_fields(self) ==
    [i \in 1..Len(self.fields) |->
        [field_type |-> get_field_type(self, self.fields[i].id),
         field |-> self.fields[i].id]]

as_field_type(self, from) ==
    LET sf == get_search_field(self, from)
    IN  IF sf.tag = "Some"
        THEN Some([field_type |-> get_field_type(self, sf.val.id),
                   field |-> sf.val.id])
        ELSE None

----------------------------------------------------------------------------
(* Literal values (tantivy::schema::Value) and terms (tantivy::Term).      *)
(* A string is a sequence of one-character strings.  A 64-bit integer is   *)
(* its bit pattern, four 16-bit limbs, most significant first: <<0,0,0,5>> *)
(* is 5, and <<65535,65535,65535,65535>> is u64::MAX or the i64 -1.        *)
(* A DateTime is the whole seconds since the epoch with the microseconds   *)
(* of the second.  A Facet is its steps from the root (none for the root), *)
(* Bytes are integers 0..255, a JsonObject is the members of a JSON        *)
(* object, and an IpAddr (Ipv6Addr) is its eight 16-bit segments.          *)

StrValue(text) == [kind |-> "Str", text |-> text]

(* tantivy::tokenizer::Token: the offsets, the position and the position   *)
(* length are usize, four limbs each.                                      *)
Token(offset_from, offset_to, position, text, position_length) ==
    [offset_from |-> offset_from, offset_to |-> offset_to,
     position |-> position, text |-> text,
     position_length |-> position_length]

(* PreTokenizedString: the text and its tokens. *)
PreTokStrValue(text, tokens) ==
    [kind |-> "PreTokStr", text |-> text, tokens |-> tokens]

U64Value(bits) == [kind |-> "U64", u64 |-> bits]

I64Value(bits) == [kind |-> "I64", i64 |-> bits]

F64Value(f) == [kind |-> "F64", f64 |-> f]

BoolValue(b) == [kind |-> "Bool", bool |-> b]

DateValue(days, secs, micros) ==
    [kind |-> "Date", date |-> [days |-> days, secs |-> secs, micros |-> micros]]

FacetValue(steps) == [kind |-> "Facet", facet |-> steps]

BytesValue(bytes) == [kind |-> "Bytes", bytes |-> bytes]

JsonObjectValue(obj) == [kind |-> "JsonObject", object |-> obj]

IpAddrValue(ip) == [kind |-> "IpAddr", ip |-> ip]

(* Term::from_field_text and its siblings: the term carries the field and  *)
(* the type tag of the constructor, whatever the field's own type is.      *)
from_field_text(field, text) == [field |-> field, typ |-> "Str", text |-> text]

from_field_i64(field, bits) == [field |-> field, typ |-> "I64", i64 |-> bits]

from_field_u64(field, bits) == [field |-> field, typ |-> "U64", u64 |-> bits]

from_field_f64(field, f) == [field |-> field, typ |-> "F64", f64 |-> f]

from_field_bool(field, b) == [field |-> field, typ |-> "Bool", bool |-> b]

from_field_date(field, date) == [field |-> field, typ |-> "Date", date |-> date]

from_facet(field, steps) == [field |-> field, typ |-> "Facet", facet |-> steps]

from_field_bytes(field, bytes) == [field |-> field, typ |-> "Bytes", bytes |-> bytes]

from_field_ip_addr(field, ip) == [field |-> field, typ |-> "IpAddr", ip |-> ip]

----------------------------------------------------------------------------
(* chrono::NaiveDateTime::parse_from_str on the two patterns of            *)
(* value_to_term.  A pattern is a sequence of items: a numeric item of at  *)
(* most width digits (at least one), a literal character, or %.f (a dot    *)
(* followed by digits, or nothing).  White space before a numeric item is  *)
(* skipped, and the year takes a sign, after which its digits are not      *)
(* limited to the width.  Each number is checked against the range of its  *)
(* field when it is read.  Input left over after the last item is an       *)
(* error.  A text is a sequence of characters; a character that has no     *)
(* ASCII form is held as the name of its code point ("U+00A0").            *)
(* An instant is held as the day since 1970-01-01, the second of the day   *)
(* and the microsecond of the second.                                      *)

Digits == <<"0", "1", "2", "3", "4", "5", "6", "7", "8", "9">>

IsDigit(c) == \E i \in 1..10 : Digits[i] = c

DigitVal(c) == (CHOOSE i \in 1..10 : Digits[i] = c) - 1

(* char::is_whitespace: U+0009 to U+000D (the vertical tab U+000B is       *)
(* written as the character itself), the space, and the white space of     *)
(* Unicode beyond ASCII.                                                   *)
WhiteSpace ==
    {" ", "\t", "\n", "\r", "\f", "",
     "U+0085", "U+00A0", "U+1680", "U+2000", "U+2001", "U+2002", "U+2003",
     "U+2004", "U+2005", "U+2006", "U+2007", "U+2008", "U+2009", "U+200A",
     "U+2028", "U+2029", "U+202F", "U+205F", "U+3000"}

(* A numeric item; only the year is signed. *)
Num(key, width) ==
    [t |-> "num", key |-> key, width |-> width, signed |-> key = "year"]

Lit(c) == [t |-> "lit", c |-> c]

Frac == [t |-> "frac"]

(* "%Y-%m-%dT%H:%M:%SZ" *)
SecondsPattern ==
    <<Num("year", 4), Lit("-"), Num("month", 2), Lit("-"), Num("day", 2),
      Lit("T"), Num("hour", 2), Lit(":"), Num("minute", 2), Lit(":"),
      Num("second", 2), Lit("Z")>>

(* "%Y-%m-%dT%H:%M:%S%.fZ" *)
FractionPattern ==
    <<Num("year", 4), Lit("-"), Num("month", 2), Lit("-"), Num("day", 2),
      Lit("T"), Num("hour", 2), Lit(":"), Num("minute", 2), Lit(":"),
      Num("second", 2), Frac, Lit("Z")>>

(* The number of digits of s from position pos on, at most max. *)
RECURSIVE DigitRun(_, _, _)
DigitRun(s, pos, max) ==
    IF max = 0 \/ pos > Len(s) \/ ~IsDigit(s[pos]) THEN 0
    ELSE 1 + DigitRun(s, pos + 1, max - 1)

RECURSIVE DigitsValue(_, _, _)
DigitsValue(s, pos, n) ==
    IF n = 0 THEN 0
    ELSE 10 * DigitsValue(s, pos, n - 1) + DigitVal(s[pos + n - 1])

(* The years of a NaiveDate: MIN_YEAR to MAX_YEAR. *)
Years == (0 - 262143)..262142

Saturated(v) == IF v > 262143 THEN 262144 ELSE v

(* The magnitude of the n digits of a signed year, held at 262144 when it  *)
(* is beyond the magnitude of every year of a NaiveDate.                   *)
RECURSIVE YearValue(_, _, _)
YearValue(s, pos, n) ==
    IF n = 0 THEN 0
    ELSE Saturated(10 * YearValue(s, pos, n - 1) + DigitVal(s[pos + n - 1]))

(* The number of zeros the n digits at pos start with. *)
RECURSIVE LeadingZeros(_, _, _)
LeadingZeros(s, pos, n) ==
    IF n = 0 \/ s[pos] # "0" THEN 0 ELSE 1 + LeadingZeros(s, pos + 1, n - 1)

(* The digits at pos, as many as limit has from k on, name a number that   *)
(* is not above the one limit names.                                       *)
RECURSIVE DigitsAtMost(_, _, _, _)
DigitsAtMost(s, pos, limit, k) ==
    IF k > Len(limit) THEN TRUE
    ELSE IF DigitVal(s[pos + k - 1]) # limit[k]
    THEN DigitVal(s[pos + k - 1]) < limit[k]
    ELSE DigitsAtMost(s, pos, limit, k + 1)

(* Parsed::set_year: the year is an i32 (a number beyond the i64 is out of *)
(* range in scan::number already).  zeros is the count of leading zeros    *)
(* of the n digits at from.                                                *)
year_in_range(s, start, from, n, zeros) ==
    \/ n - zeros < 10
    \/ /\ n - zeros = 10
       /\ DigitsAtMost(s, from + zeros,
              IF s[start] = "-" THEN <<2, 1, 4, 7, 4, 8, 3, 6, 4, 8>>
              ELSE <<2, 1, 4, 7, 4, 8, 3, 6, 4, 7>>, 1)

(* Parsed::set_month, set_day, set_hour, set_minute, set_second: the range *)
(* each checks.                                                            *)
FieldRange ==
    [month |-> 1..12, day |-> 1..31, hour |-> 0..23, minute |-> 0..59,
     second |-> 0..60]

(* str::trim_start: the position of the first character from pos on that   *)
(* is not white space.                                                     *)
RECURSIVE trim_start(_, _)
trim_start(s, pos) ==
    IF pos <= Len(s) /\ s[pos] \in WhiteSpace THEN trim_start(s, pos + 1)
    ELSE pos

RECURSIVE Pow10(_)
Pow10(n) == IF n = 0 THEN 1 ELSE 10 * Pow10(n - 1)

NoFields ==
    [year |-> 0, month |-> 0, day |-> 0, hour |-> 0, minute |-> 0,
     second |-> 0, nanosecond |-> 0]

(* The position of the digits of a number at start: past the sign, when    *)
(* the number is signed and starts with one.                               *)
digits_from(s, start, signed) ==
    IF signed /\ start <= Len(s) /\ s[start] \in {"+", "-"} THEN start + 1
    ELSE start

(* The value of the n digits at from: of a number with a sign (from is     *)
(* past start) the year, below zero after "-".                             *)
number_value(s, start, from, n) ==
    IF from = start THEN DigitsValue(s, from, n)
    ELSE IF s[start] = "+" THEN YearValue(s, from, n)
    ELSE 0 - YearValue(s, from, n)

(* The setter of the field accepts the n digits at from. *)
set_accepts(key, s, start, from, n) ==
    IF key = "year"
    THEN year_in_range(s, start, from, n, LeadingZeros(s, from, n))
    ELSE DigitsValue(s, from, n) \in FieldRange[key]

RECURSIVE parse_items(_, _, _, _, _)
RECURSIVE parse_number(_, _, _, _, _, _, _)

(* A numeric item at start, its digits at from: at most width digits, and  *)
(* every digit that follows a sign; then the setter of the field.          *)
parse_number(s, start, from, item, items, i, parsed) ==
    LET n == DigitRun(s, from, IF from = start THEN item.width ELSE Len(s))
    IN  IF n = 0
        THEN IF from > Len(s) THEN Err("TooShort") ELSE Err("Invalid")
        ELSE IF ~set_accepts(item.key, s, start, from, n)
        THEN Err("OutOfRange")
        ELSE parse_items(s, from + n, items, i + 1,
                 [parsed EXCEPT ![item.key] = number_value(s, start, from, n)])

parse_items(s, pos, items, i, parsed) ==
    IF i > Len(items)
    THEN IF pos > Len(s) THEN Ok(parsed) ELSE Err("TooLong")
    ELSE LET item == items[i]
         IN  CASE item.t = "lit" ->
                    IF pos > Len(s) THEN Err("TooShort")
                    ELSE IF s[pos] # item.c THEN Err("Invalid")
                    ELSE parse_items(s, pos + 1, items, i + 1, parsed)
               [] item.t = "num" ->
                    parse_number(s, trim_start(s, pos),
                                 digits_from(s, trim_start(s, pos), item.signed),
                                 item, items, i, parsed)
               [] item.t = "frac" ->
                    IF pos <= Len(s) /\ s[pos] = "."
                    THEN LET n == DigitRun(s, pos + 1, 9)
                             rest == DigitRun(s, pos + 1 + n, Len(s))
                         IN  IF n = 0
                             THEN IF pos + 1 > Len(s) THEN Err("TooShort")
                                  ELSE Err("Invalid")
                             ELSE parse_items(s, pos + 1 + n + rest, items, i + 1,
                                      [parsed EXCEPT !.nanosecond =
                                          DigitsValue(s, pos + 1, n) * Pow10(9 - n)])
                    ELSE parse_items(s, pos, items, i + 1, parsed)

IsLeapYear(y) == (y % 4 = 0 /\ y % 100 # 0) \/ y % 400 = 0

DaysInMonth(y, m) ==
    CASE m \in {1, 3, 5, 7, 8, 10, 12} -> 31
      [] m \in {4, 6, 9, 11} -> 30
      [] m = 2 -> IF IsLeapYear(y) THEN 29 ELSE 28
      [] OTHER -> 0

(* Days from 1970-01-01 to the civil date y-m-d. *)
DaysFromCivil(y, m, d) ==
    LET yy == IF m <= 2 THEN y - 1 ELSE y
        era == yy \div 400
        yoe == yy - era * 400
        mp == (m + 9) % 12
        doy == (153 * mp + 2) \div 5 + d - 1
        doe == yoe * 365 + yoe \div 4 - yoe \div 100 + doy
    IN  era * 146097 + doe - 719468

(* Parsed::to_naive_datetime_with_offset(0): the fields must name a real    *)
(* date and time; second 60 is a leap second.                               *)
to_naive_datetime(p) ==
    IF /\ p.year \in Years
       /\ p.month \in 1..12
       /\ p.day \in 1..DaysInMonth(p.year, p.month)
       /\ p.hour \in 0..23
       /\ p.minute \in 0..59
       /\ p.second \in 0..60
    THEN Ok(p)
    ELSE Err("OutOfRange")

parse_from_str(s, items) ==
    LET parsed == parse_items(s, 1, items, 1, NoFields)
    IN  IF parsed.tag = "Ok" THEN to_naive_datetime(parsed.val) ELSE parsed

(* tantivy::DateTime: an instant, as its day since 1970-01-01, the second  *)
(* of the day and the microsecond of the second.                           *)
DateTime(days, secs, micros) == [days |-> days, secs |-> secs, micros |-> micros]

(* datetime.and_utc().timestamp_micros(), then                             *)
(* tantivy::DateTime::from_timestamp_micros.  A leap second (second 60) is *)
(* second 59 with a thousand million nanoseconds more, so it names the     *)
(* instant one second later.                                               *)
timestamp_micros(p) ==
    DateTime(DaysFromCivil(p.year, p.month, p.day)
                 + (p.hour * 3600 + p.minute * 60 + p.second) \div 86400,
             (p.hour * 3600 + p.minute * 60 + p.second) % 86400,
             p.nanosecond \div 1000)

----------------------------------------------------------------------------
(* QueryError *)

WrongFieldType(field) == [kind |-> "WrongFieldType", field |-> field]

NonIndexedField(field) == [kind |-> "NonIndexedField", field |-> field]

FieldTypeMismatch == [kind |-> "FieldTypeMismatch"]

RegexError(cause, pattern) ==
    [kind |-> "RegexError", cause |-> cause, pattern |-> pattern]

ParseError(cause, query_string) ==
    [kind |-> "ParseError", cause |-> cause, query_string |-> query_string]

(* #[error("wrong field type for field: {0}")]: the Display text of        *)
(* WrongFieldType, the fixed part and the field name.                      *)
to_string(e) == <<"wrong field type for field: ", e.field>>

(* bail!("{}", e): an error that carries only the formatted message.       *)
bail(e) == [kind |-> "Message", message |-> to_string(e)]

----------------------------------------------------------------------------
(* value_to_term *)

(* str_to_term that tries the seconds-precision pattern only. *)
str_to_term_seconds_only(field, text, field_type) ==
    IF field_type = "Date"
    THEN LET first == parse_from_str(text, SecondsPattern)
         IN  IF first.tag = "Ok"
             THEN Ok(from_field_date(field, timestamp_micros(first.val)))
             ELSE Err(FieldTypeMismatch)
    ELSE Ok(from_field_text(field, text))

(* str_to_term that gives a text term on Str fields only, and refuses a   *)
(* string on a field of another non-Date type.                             *)
str_to_term_text_fields_only(field, text, field_type) ==
    IF field_type = "Date"
    THEN LET first == parse_from_str(text, SecondsPattern)
             second == parse_from_str(text, FractionPattern)
         IN  IF first.tag = "Ok"
             THEN Ok(from_field_date(field, timestamp_micros(first.val)))
             ELSE IF second.tag = "Ok"
             THEN Ok(from_field_date(field, timestamp_micros(second.val)))
             ELSE Err(FieldTypeMismatch)
    ELSE IF field_type = "Str"
    THEN Ok(from_field_text(field, text))
    ELSE Err(FieldTypeMismatch)

str_to_term(field, text, field_type) ==
    IF field_type = "Date"
    THEN LET first == parse_from_str(text, SecondsPattern)
             second == parse_from_str(text, FractionPattern)
         IN  IF first.tag = "Ok"
             THEN Ok(from_field_date(field, timestamp_micros(first.val)))
             ELSE IF second.tag = "Ok"
             THEN Ok(from_field_date(field, timestamp_micros(second.val)))
             ELSE Err(FieldTypeMismatch)
    ELSE Ok(from_field_text(field, text))

(* A conversion that saturates: a u64 above i64::MAX becomes i64::MAX. *)
u64_as_i64_saturating(bits) ==
    IF bits[1] >= 32768 THEN <<32767, 65535, 65535, 65535>> ELSE bits

(* u64 as i64: the same 64 bits. *)
u64_as_i64(bits) == bits

u64_to_term(field, bits, field_type) ==
    CASE field_type = "I64" -> Ok(from_field_i64(field, u64_as_i64(bits)))
      [] field_type = "U64" -> Ok(from_field_u64(field, bits))
      [] OTHER -> Panic("invalid field type for u64 value")

value_to_term(field, value, field_type) ==
    CASE value.kind = "Str" -> str_to_term(field, value.text, field_type)
      [] value.kind = "PreTokStr" ->
             Panic("pre-tokenized text cannot be converted to term")
      [] value.kind = "U64" -> u64_to_term(field, value.u64, field_type)
      [] value.kind = "I64" -> Ok(from_field_i64(field, value.i64))
      [] value.kind = "F64" -> Ok(from_field_f64(field, value.f64))
      [] value.kind = "Bool" -> Ok(from_field_bool(field, value.bool))
      [] value.kind = "Date" -> Ok(from_field_date(field, value.date))
      [] value.kind = "Facet" -> Ok(from_facet(field, value.facet))
      [] value.kind = "Bytes" -> Ok(from_field_bytes(field, value.bytes))
      [] value.kind = "JsonObject" -> Panic("json cannot be converted to term")
      [] value.kind = "IpAddr" -> Ok(from_field_ip_addr(field, value.ip))

----------------------------------------------------------------------------
(* AsFieldType: the provided methods on top of as_field_type.              *)

as_str(field_lookup, from) ==
    LET ft == as_field_type(field_lookup, from)
    IN  IF ft.tag = "Some" /\ ft.val.field_type = "Str"
        THEN Some(ft.val.field) ELSE None

as_u64(field_lookup, from) ==
    LET ft == as_field_type(field_lookup, from)
    IN  IF ft.tag = "Some" /\ ft.val.field_type = "U64"
        THEN Some(ft.val.field) ELSE None

as_i64(field_lookup, from) ==
    LET ft == as_field_type(field_lookup, from)
    IN  IF ft.tag = "Some" /\ ft.val.field_type = "I64"
        THEN Some(ft.val.field) ELSE None

(* The literal kinds that is_field_type pairs with the field type of the   *)
(* same name.                                                              *)
MatchedKinds ==
    {"Str", "U64", "I64", "F64", "Bool", "Date", "Facet", "Bytes",
     "JsonObject", "IpAddr"}

(* is_field_type that also pairs an I64 field with a U64 literal, as term  *)
(* encoding does.                                                          *)
is_field_type_as_term(field_lookup, from, value) ==
    LET ft == as_field_type(field_lookup, from)
    IN  /\ ft.tag = "Some"
        /\ value.kind \in MatchedKinds
        /\ \/ ft.val.field_type = value.kind
           \/ ft.val.field_type = "I64" /\ value.kind = "U64"

is_field_type(field_lookup, from, value) ==
    LET ft == as_field_type(field_lookup, from)
    IN  /\ ft.tag = "Some"
        /\ value.kind \in MatchedKinds
        /\ ft.val.field_type = value.kind

(* Option::or_else *)
or_else(opt, other) == IF opt.tag = "Some" THEN opt ELSE other

(* Option::unwrap_or *)
unwrap_or(opt, default) == IF opt.tag = "Some" THEN opt.val ELSE default

----------------------------------------------------------------------------
(* The engine's query objects.  The compiler only constructs them: each is *)
(* modelled as the constructor that was called and the arguments it got.   *)

AllQuery == [q |-> "AllQuery"]

EmptyQuery == [q |-> "EmptyQuery"]

TermQuery_new(term, record_option) ==
    [q |-> "TermQuery", term |-> term, record_option |-> record_option]

TermSetQuery_new(terms) == [q |-> "TermSetQuery", terms |-> terms]

(* FuzzyTermQuery::new matches the whole term. *)
FuzzyTermQuery_new(term, distance, transposition_cost_one) ==
    [q |-> "FuzzyTermQuery", term |-> term, distance |-> distance,
     transposition_cost_one |-> transposition_cost_one, prefix |-> FALSE]

(* FuzzyTermQuery::new_prefix matches the terms the term is a prefix of. *)
FuzzyTermQuery_new_prefix(term, distance, transposition_cost_one) ==
    [q |-> "FuzzyTermQuery", term |-> term, distance |-> distance,
     transposition_cost_one |-> transposition_cost_one, prefix |-> TRUE]

BooleanQuery_new(subqueries) ==
    [q |-> "BooleanQuery", subqueries |-> subqueries]

BoostQuery_new(query, boost) ==
    [q |-> "BoostQuery", query |-> query, boost |-> boost]

ConstScoreQuery_new(query, score) ==
    [q |-> "ConstScoreQuery", query |-> query, score |-> score]

DisjunctionMaxQuery_with_tie_breaker(disjuncts, tie_breaker) ==
    [q |-> "DisjunctionMaxQuery", disjuncts |-> disjuncts,
     tie_breaker |-> Some(tie_breaker)]

DisjunctionMaxQuery_new(disjuncts) ==
    [q |-> "DisjunctionMaxQuery", disjuncts |-> disjuncts, tie_breaker |-> None]

FastFieldRangeWeight_new(field, lower_bound, upper_bound) ==
    [q |-> "FastFieldRangeWeight", field |-> field,
     lower_bound |-> lower_bound, upper_bound |-> upper_bound]

(* MoreLikeThisQuery::builder(): no option set yet; an option the compiler *)
(* never sets stays None.                                                  *)
MoreLikeThisQuery_builder ==
    [min_doc_frequency |-> None, max_doc_frequency |-> None,
     min_term_frequency |-> None, max_query_terms |-> None,
     min_word_length |-> None, max_word_length |-> None,
     boost_factor |-> None, stop_words |-> None]

(* builder.with_document_fields *)
with_document_fields(builder, doc_fields) ==
    [q |-> "MoreLikeThisQuery", mlt |-> builder, doc_fields |-> doc_fields]

(* PhrasePrefixQuery::new: the engine asserts that there is a term.        *)
PhrasePrefixQuery_new(terms) ==
    IF Len(terms) = 0
    THEN Panic("A phrase prefix query is required to have at least one term.")
    ELSE Ok([q |-> "PhrasePrefixQuery", terms |-> terms,
             max_expansions |-> None])

(* PhraseQuery::new: the engine asserts that there is more than one term.  *)
PhraseQuery_new(terms) ==
    IF Len(terms) <= 1
    THEN Panic("A phrase query is required to have strictly more than one term.")
    ELSE Ok([q |-> "PhraseQuery", terms |-> terms, slop |-> None])

RangeQuery_new_term_bounds(field, value_type, lower_bound, upper_bound) ==
    [q |-> "RangeQuery", field |-> field, value_type |-> value_type,
     lower_bound |-> lower_bound, upper_bound |-> upper_bound]

(* The depth of open groups after s[1..n]; -1 once a group was closed that *)
(* was never opened.                                                       *)
RECURSIVE GroupDepth(_, _)
GroupDepth(s, n) ==
    IF n = 0 THEN 0
    ELSE LET d == GroupDepth(s, n - 1)
         IN  CASE d < 0 -> d
               [] s[n] = "(" -> d + 1
               [] s[n] = ")" -> d - 1
               [] OTHER -> d

(* RegexQuery::from_pattern: the engine compiles the pattern; a pattern    *)
(* whose groups do not balance does not compile.                           *)
RegexQuery_from_pattern(pattern, field) ==
    IF GroupDepth(pattern, Len(pattern)) = 0
    THEN Ok([q |-> "RegexQuery", pattern |-> pattern, field |-> field])
    ELSE Err("InvalidArgument")

(* FieldType::value_type *)
value_type(field_type) ==
    IF field_type = "JsonObject" THEN "Json" ELSE field_type

(* std::ops::Bound *)
Included(v) == [bound |-> "Included", val |-> v]

Excluded(v) == [bound |-> "Excluded", val |-> v]

Unbounded == [bound |-> "Unbounded"]

----------------------------------------------------------------------------
(* SearchQueryInput and into_tantivy_query, one operator per match arm.    *)

Term(field, value) == [variant |-> "Term", field |-> field, value |-> value]

TermSet(terms) == [variant |-> "TermSet", terms |-> terms]

FuzzyTerm(field, value, distance, tranposition_cost_one, prefix) ==
    [variant |-> "FuzzyTerm", field |-> field, value |-> value,
     distance |-> distance, tranposition_cost_one |-> tranposition_cost_one,
     prefix |-> prefix]

(* Self::FuzzyTerm *)
compile_fuzzy_term(self, field_lookup) ==
    LET field == as_str(field_lookup, self.field)
    IN  IF field.tag = "None"
        THEN Err(WrongFieldType(self.field))
        ELSE LET term == from_field_text(field.val, self.value)
                 distance == unwrap_or(self.distance, 1)
                 tranposition_cost_one == unwrap_or(self.tranposition_cost_one, FALSE)
             IN  IF unwrap_or(self.prefix, FALSE)
                 THEN Ok(FuzzyTermQuery_new(term, distance, tranposition_cost_one))
                 ELSE Ok(FuzzyTermQuery_new_prefix(term, distance, tranposition_cost_one))

(* Self::Term with Some(field) that reports an absent field as a         *)
(* WrongFieldType.                                                         *)
compile_term_qualified_wrong_field_type(field, value, field_lookup) ==
    LET record_option == "WithFreqsAndPositions"
        ft == as_field_type(field_lookup, field)
    IN  IF ft.tag = "None"
        THEN Err(WrongFieldType(field))
        ELSE LET term == value_to_term(ft.val.field, value, ft.val.field_type)
             IN  IF term.tag = "Ok"
                 THEN Ok(TermQuery_new(term.val, record_option))
                 ELSE term

(* Self::Term with Some(field) *)
compile_term_qualified(field, value, field_lookup) ==
    LET record_option == "WithFreqsAndPositions"
        ft == as_field_type(field_lookup, field)
    IN  IF ft.tag = "None"
        THEN Err(NonIndexedField(field))
        ELSE LET term == value_to_term(ft.val.field, value, ft.val.field_type)
             IN  IF term.tag = "Ok"
                 THEN Ok(TermQuery_new(term.val, record_option))
                 ELSE term

(* The loop of Self::Term with no field: a field that value_to_term gives  *)
(* an Err for is skipped; a panic of value_to_term ends the compilation.   *)
RECURSIVE all_fields_terms(_, _, _, _)
all_fields_terms(all_fields, i, value, terms) ==
    IF i > Len(all_fields)
    THEN Ok(terms)
    ELSE LET term == value_to_term(all_fields[i].field, value,
                                   all_fields[i].field_type)
         IN  CASE term.tag = "Ok" ->
                    all_fields_terms(all_fields, i + 1, value,
                                     Append(terms, term.val))
               [] term.tag = "Err" ->
                    all_fields_terms(all_fields, i + 1, value, terms)
               [] term.tag = "Panic" -> term

(* Self::Term with None *)
compile_term_unqualified(value, field_lookup) ==
    LET all_fields == schema_fields(field_lookup)
        terms == all_fields_terms(all_fields, 1, value, <<>>)
    IN  IF terms.tag = "Ok" THEN Ok(TermSetQuery_new(terms.val)) ELSE terms

(* Self::Term *)
compile_term(self, field_lookup) ==
    IF self.field.tag = "Some"
    THEN compile_term_qualified(self.field.val, self.value, field_lookup)
    ELSE compile_term_unqualified(self.value, field_lookup)

(* The loop of Self::TermSet skipping a pair that does not resolve or     *)
(* encode, as the loop of the unqualified Term does.                      *)
RECURSIVE term_set_terms_skipping(_, _, _, _)
term_set_terms_skipping(fields, i, field_lookup, terms) ==
    IF i > Len(fields)
    THEN Ok(terms)
    ELSE LET ft == as_field_type(field_lookup, fields[i][1])
             term == IF ft.tag = "None" THEN Err(NonIndexedField(fields[i][1]))
                     ELSE value_to_term(ft.val.field, fields[i][2],
                                        ft.val.field_type)
         IN  term_set_terms_skipping(fields, i + 1, field_lookup,
                 IF term.tag = "Ok" THEN Append(terms, term.val) ELSE terms)

(* The loop of Self::TermSet: the first pair that does not resolve or      *)
(* does not encode ends the compilation.                                   *)
RECURSIVE term_set_terms(_, _, _, _)
term_set_terms(fields, i, field_lookup, terms) ==
    IF i > Len(fields)
    THEN Ok(terms)
    ELSE LET field_name == fields[i][1]
             field_value == fields[i][2]
             ft == as_field_type(field_lookup, field_name)
         IN  IF ft.tag = "None"
             THEN Err(NonIndexedField(field_name))
             ELSE LET term == value_to_term(ft.val.field, field_value,
                                            ft.val.field_type)
                  IN  IF term.tag = "Ok"
                      THEN term_set_terms(fields, i + 1, field_lookup,
                                          Append(terms, term.val))
                      ELSE term

(* Self::TermSet *)
compile_term_set(self, field_lookup) ==
    LET terms == term_set_terms(self.terms, 1, field_lookup, <<>>)
    IN  IF terms.tag = "Ok" THEN Ok(TermSetQuery_new(terms.val)) ELSE terms

(* QueryParser::parse_query.  A query string is the sequence of its       *)
(* lexemes: <<"body", ":", "shoes">> is "body:shoes".  The grammar accepts *)
(* a bare word (searched in the default fields) and field:word; the field  *)
(* must be one of the schema the parser was made for.                      *)
parse_query(field_lookup, query_string) ==
    CASE Len(query_string) = 1 /\ query_string[1] # ":" ->
             Ok([q |-> "ParsedQuery", default_fields |-> TRUE,
                 word |-> query_string[1]])
      [] Len(query_string) = 3 /\ query_string[1] # ":"
            /\ query_string[2] = ":" /\ query_string[3] # ":" ->
             LET ft == as_field_type(field_lookup, query_string[1])
             IN  IF ft.tag = "Some"
                 THEN Ok([q |-> "ParsedQuery", field |-> ft.val.field,
                          word |-> query_string[3]])
                 ELSE Err("FieldDoesNotExist")
      [] OTHER -> Err("SyntaxError")

All == [variant |-> "All"]

Empty == [variant |-> "Empty"]

Boolean(must, should, must_not) ==
    [variant |-> "Boolean", must |-> must, should |-> should,
     must_not |-> must_not]

Boost(query, boost) == [variant |-> "Boost", query |-> query, boost |-> boost]

ConstScore(query, score) ==
    [variant |-> "ConstScore", query |-> query, score |-> score]

DisjunctionMax(disjuncts, tie_breaker) ==
    [variant |-> "DisjunctionMax", disjuncts |-> disjuncts,
     tie_breaker |-> tie_breaker]

FastFieldRangeWeight(field, lower_bound, upper_bound) ==
    [variant |-> "FastFieldRangeWeight", field |-> field,
     lower_bound |-> lower_bound, upper_bound |-> upper_bound]

(* knobs: the eight optional settings, in the order of the variant.        *)
MoreLikeThis(knobs, fields) ==
    [variant |-> "MoreLikeThis",
     min_doc_frequency |-> knobs.min_doc_frequency,
     max_doc_frequency |-> knobs.max_doc_frequency,
     min_term_frequency |-> knobs.min_term_frequency,
     max_query_terms |-> knobs.max_query_terms,
     min_word_length |-> knobs.min_word_length,
     max_word_length |-> knobs.max_word_length,
     boost_factor |-> knobs.boost_factor,
     stop_words |-> knobs.stop_words,
     fields |-> fields]

Parse(query_string) == [variant |-> "Parse", query_string |-> query_string]

Phrase(field, phrases, slop) ==
    [variant |-> "Phrase", field |-> field, phrases |-> phrases, slop |-> slop]

PhrasePrefix(field, phrases, max_expansions) ==
    [variant |-> "PhrasePrefix", field |-> field, phrases |-> phrases,
     max_expansions |-> max_expansions]

Range(field, lower_bound, upper_bound) ==
    [variant |-> "Range", field |-> field, lower_bound |-> lower_bound,
     upper_bound |-> upper_bound]

Regex(field, pattern) ==
    [variant |-> "Regex", field |-> field, pattern |-> pattern]

(* Self::FastFieldRangeWeight that takes unsigned fields only. *)
compile_fast_field_range_weight_u64_only(self, field_lookup) ==
    LET field == as_u64(field_lookup, self.field)
    IN  IF field.tag = "None"
        THEN Err(WrongFieldType(self.field))
        ELSE Ok(FastFieldRangeWeight_new(self.field, self.lower_bound,
                                         self.upper_bound))

(* Self::FastFieldRangeWeight *)
compile_fast_field_range_weight(self, field_lookup) ==
    LET field == or_else(as_u64(field_lookup, self.field),
                         as_i64(field_lookup, self.field))
    IN  IF field.tag = "None"
        THEN Err(WrongFieldType(self.field))
        ELSE Ok(FastFieldRangeWeight_new(self.field, self.lower_bound,
                                         self.upper_bound))

(* if let Some(v) = option { builder = builder.with_option(v) } *)
with_option(builder, option, value) ==
    IF value.tag = "Some"
    THEN [builder EXCEPT ![option] = Some(value.val)]
    ELSE builder

(* The loop of Self::MoreLikeThis keeping only the last value of a field. *)
RECURSIVE more_like_this_fields_last_value(_, _, _, _)
more_like_this_fields_last_value(fields, i, field_lookup, fields_map) ==
    IF i > Len(fields)
    THEN Ok(fields_map)
    ELSE LET field_name == fields[i][1]
             value == fields[i][2]
             ft == as_field_type(field_lookup, field_name)
         IN  IF ~is_field_type(field_lookup, field_name, value)
             THEN Err(bail(WrongFieldType(field_name)))
             ELSE more_like_this_fields_last_value(fields, i + 1, field_lookup,
                      (ft.val.field :> <<value>>) @@ fields_map)

(* The loop of Self::MoreLikeThis over the field/value pairs. *)
RECURSIVE more_like_this_fields(_, _, _, _)
more_like_this_fields(fields, i, field_lookup, fields_map) ==
    IF i > Len(fields)
    THEN Ok(fields_map)
    ELSE LET field_name == fields[i][1]
             value == fields[i][2]
             ft == as_field_type(field_lookup, field_name)
         IN  IF ~is_field_type(field_lookup, field_name, value)
             THEN Err(bail(WrongFieldType(field_name)))
             ELSE IF ft.tag = "None"
             THEN Err(WrongFieldType(field_name))
             ELSE LET field == ft.val.field
                      entry == IF field \in DOMAIN fields_map
                               THEN fields_map
                               ELSE (field :> <<>>) @@ fields_map
                  IN  more_like_this_fields(fields, i + 1, field_lookup,
                          [entry EXCEPT ![field] = Append(@, value)])

(* Self::MoreLikeThis *)
compile_more_like_this(self, field_lookup) ==
    LET b1 == with_option(MoreLikeThisQuery_builder, "min_doc_frequency",
                          self.min_doc_frequency)
        b2 == with_option(b1, "max_doc_frequency", self.max_doc_frequency)
        b3 == with_option(b2, "min_term_frequency", self.min_term_frequency)
        b4 == with_option(b3, "max_query_terms", self.max_query_terms)
        b5 == with_option(b4, "min_word_length", self.min_word_length)
        b6 == with_option(b5, "max_word_length", self.max_word_length)
        b7 == with_option(b6, "boost_factor", self.boost_factor)
        builder == with_option(b7, "stop_words", self.stop_words)
        fields_map == more_like_this_fields(self.fields, 1, field_lookup, <<>>)
    IN  IF fields_map.tag = "Ok"
        THEN Ok(with_document_fields(builder, fields_map.val))
        ELSE fields_map

(* phrases.into_iter().map(|phrase| Term::from_field_text(field, &phrase)) *)
phrase_terms(field, phrases) ==
    [i \in 1..Len(phrases) |-> from_field_text(field, phrases[i])]

(* Self::PhrasePrefix *)
compile_phrase_prefix(self, field_lookup) ==
    LET field == as_str(field_lookup, self.field)
    IN  IF field.tag = "None"
        THEN Err(WrongFieldType(self.field))
        ELSE LET query == PhrasePrefixQuery_new(phrase_terms(field.val, self.phrases))
             IN  IF query.tag # "Ok" THEN query
                 ELSE IF self.max_expansions.tag = "Some"
                 THEN Ok([query.val EXCEPT
                             !.max_expansions = Some(self.max_expansions.val)])
                 ELSE query

(* Self::Parse *)
compile_parse(self, field_lookup) ==
    LET parsed == parse_query(field_lookup, self.query_string)
    IN  IF parsed.tag = "Ok" THEN parsed
        ELSE Err(ParseError(parsed.err, self.query_string))

(* Self::Phrase *)
compile_phrase(self, field_lookup) ==
    LET field == as_str(field_lookup, self.field)
    IN  IF field.tag = "None"
        THEN Err(WrongFieldType(self.field))
        ELSE LET query == PhraseQuery_new(phrase_terms(field.val, self.phrases))
             IN  IF query.tag # "Ok" THEN query
                 ELSE IF self.slop.tag = "Some"
                 THEN Ok([query.val EXCEPT !.slop = Some(self.slop.val)])
                 ELSE query

(* match lower_bound / upper_bound { Included(v) => Included(term?), .. } *)
bound_to_term(field, bound, field_type) ==
    IF bound.bound = "Unbounded"
    THEN Ok(Unbounded)
    ELSE LET term == value_to_term(field, bound.val, field_type)
         IN  IF term.tag # "Ok" THEN term
             ELSE IF bound.bound = "Included" THEN Ok(Included(term.val))
             ELSE Ok(Excluded(term.val))

(* Self::Range *)
compile_range(self, field_lookup) ==
    LET field_name == self.field
        ft == as_field_type(field_lookup, field_name)
    IN  IF ft.tag = "None"
        THEN Err(WrongFieldType(field_name))
        ELSE LET lower_bound == bound_to_term(ft.val.field, self.lower_bound,
                                              ft.val.field_type)
                 upper_bound == bound_to_term(ft.val.field, self.upper_bound,
                                              ft.val.field_type)
             IN  IF lower_bound.tag # "Ok" THEN lower_bound
                 ELSE IF upper_bound.tag # "Ok" THEN upper_bound
                 ELSE Ok(RangeQuery_new_term_bounds(field_name,
                             value_type(ft.val.field_type),
                             lower_bound.val, upper_bound.val))

(* Self::Regex *)
compile_regex(self, field_lookup) ==
    LET field == as_str(field_lookup, self.field)
    IN  IF field.tag = "None"
        THEN Err(WrongFieldType(self.field))
        ELSE LET query == RegexQuery_from_pattern(self.pattern, field.val)
             IN  IF query.tag = "Ok" THEN query
                 ELSE Err(RegexError(query.err, self.pattern))

(* What a compilation leaves behind: its result, and the parser, which is  *)
(* the sequence of the query strings parse_query was called with.          *)
Compiled(res, parser) == [res |-> res, parser |-> parser]

RECURSIVE into_tantivy_query(_, _, _)

(* A loop that compiles every input and then returns the first failure. *)
RECURSIVE compile_each_eager(_, _, _, _, _)
compile_each_eager(inputs, i, field_lookup, parser, queries) ==
    IF i > Len(inputs)
    THEN Compiled(Ok(queries), parser)
    ELSE LET c == into_tantivy_query(inputs[i], field_lookup, parser)
             rest == compile_each_eager(inputs, i + 1, field_lookup, c.parser,
                                        IF c.res.tag = "Ok"
                                        THEN Append(queries, c.res.val)
                                        ELSE queries)
         IN  IF c.res.tag = "Ok" THEN rest ELSE Compiled(c.res, rest.parser)

(* input.into_tantivy_query(field_lookup, parser)? for each input in turn: *)
(* the first failure ends the loop and is the result.                      *)
RECURSIVE compile_each(_, _, _, _, _)
compile_each(inputs, i, field_lookup, parser, queries) ==
    IF i > Len(inputs)
    THEN Compiled(Ok(queries), parser)
    ELSE LET c == into_tantivy_query(inputs[i], field_lookup, parser)
         IN  IF c.res.tag = "Ok"
             THEN compile_each(inputs, i + 1, field_lookup, c.parser,
                               Append(queries, c.res.val))
             ELSE c

(* subqueries.push((occur, query)) for each query *)
with_occur(occur, queries) ==
    [i \in 1..Len(queries) |-> <<occur, queries[i]>>]

(* Self::Boolean with every clause pushed as Occur::Must. *)
compile_boolean_all_must(self, field_lookup, parser) ==
    LET all == compile_each(self.must \o self.should \o self.must_not, 1,
                            field_lookup, parser, <<>>)
    IN  IF all.res.tag # "Ok" THEN all
        ELSE Compiled(Ok(BooleanQuery_new(with_occur("Must", all.res.val))),
                      all.parser)

(* Self::Boolean *)
compile_boolean(self, field_lookup, parser) ==
    LET must == compile_each(self.must, 1, field_lookup, parser, <<>>)
    IN  IF must.res.tag # "Ok" THEN must
        ELSE
    LET should == compile_each(self.should, 1, field_lookup, must.parser, <<>>)
    IN  IF should.res.tag # "Ok" THEN should
        ELSE
    LET must_not == compile_each(self.must_not, 1, field_lookup,
                                 should.parser, <<>>)
    IN  IF must_not.res.tag # "Ok" THEN must_not
        ELSE Compiled(Ok(BooleanQuery_new(
                             with_occur("Must", must.res.val)
                             \o with_occur("Should", should.res.val)
                             \o with_occur("MustNot", must_not.res.val))),
                      must_not.parser)

(* Self::Boost *)
compile_boost(self, field_lookup, parser) ==
    LET query == into_tantivy_query(self.query, field_lookup, parser)
    IN  IF query.res.tag # "Ok" THEN query
        ELSE Compiled(Ok(BoostQuery_new(query.res.val, self.boost)),
                      query.parser)

(* Self::ConstScore *)
compile_const_score(self, field_lookup, parser) ==
    LET query == into_tantivy_query(self.query, field_lookup, parser)
    IN  IF query.res.tag # "Ok" THEN query
        ELSE Compiled(Ok(ConstScoreQuery_new(query.res.val, self.score)),
                      query.parser)

(* Self::DisjunctionMax *)
compile_disjunction_max(self, field_lookup, parser) ==
    LET disjuncts == compile_each(self.disjuncts, 1, field_lookup, parser, <<>>)
    IN  IF disjuncts.res.tag # "Ok" THEN disjuncts
        ELSE IF self.tie_breaker.tag = "Some"
        THEN Compiled(Ok(DisjunctionMaxQuery_with_tie_breaker(
                             disjuncts.res.val, self.tie_breaker.val)),
                      disjuncts.parser)
        ELSE Compiled(Ok(DisjunctionMaxQuery_new(disjuncts.res.val)),
                      disjuncts.parser)

into_tantivy_query(self, field_lookup, parser) ==
    CASE self.variant = "All" -> Compiled(Ok(AllQuery), parser)
      [] self.variant = "Boolean" -> compile_boolean(self, field_lookup, parser)
      [] self.variant = "Boost" -> compile_boost(self, field_lookup, parser)
      [] self.variant = "ConstScore" ->
             compile_const_score(self, field_lookup, parser)
      [] self.variant = "DisjunctionMax" ->
             compile_disjunction_max(self, field_lookup, parser)
      [] self.variant = "Empty" -> Compiled(Ok(EmptyQuery), parser)
      [] self.variant = "FastFieldRangeWeight" ->
             Compiled(compile_fast_field_range_weight(self, field_lookup), parser)
      [] self.variant = "FuzzyTerm" ->
             Compiled(compile_fuzzy_term(self, field_lookup), parser)
      [] self.variant = "MoreLikeThis" ->
             Compiled(compile_more_like_this(self, field_lookup), parser)
      [] self.variant = "PhrasePrefix" ->
             Compiled(compile_phrase_prefix(self, field_lookup), parser)
      [] self.variant = "Parse" ->
             Compiled(compile_parse(self, field_lookup),
                      Append(parser, self.query_string))
      [] self.variant = "Phrase" ->
             Compiled(compile_phrase(self, field_lookup), parser)
      [] self.variant = "Range" ->
             Compiled(compile_range(self, field_lookup), parser)
      [] self.variant = "Regex" ->
             Compiled(compile_regex(self, field_lookup), parser)
      [] self.variant = "Term" ->
             Compiled(compile_term(self, field_lookup), parser)
      [] self.variant = "TermSet" ->
             Compiled(compile_term_set(self, field_lookup), parser)
----------------------------------------------------------------------------
(* serde_json::Value, and the two ways a field configuration is read from  *)
(* it: the per-family parsers (text_from_json, ..) and the derived decoder *)
(* of the tagged form (from_json).  A JSON object is its members, a        *)
(* function from the keys present to their values.                         *)

JNull == [j |-> "null"]

JBool(b) == [j |-> "bool", b |-> b]

JNumber(n) == [j |-> "number", n |-> n]

JString(str) == [j |-> "string", str |-> str]

JObject(members) == [j |-> "object", members |-> members]

(* Value::as_object *)
json_as_object(value) ==
    IF value.j = "object" THEN Some(value.members) ELSE None

(* Value::as_bool *)
json_as_bool(value) == IF value.j = "bool" THEN Some(value.b) ELSE None

(* match obj.get(key) { Some(v) => v.as_bool().ok_or_else(..), None => Ok(default) } *)
bool_key(obj, key, default) ==
    LET v == MapGet(obj, key)
    IN  IF v.tag = "None" THEN Ok(default)
        ELSE IF json_as_bool(v.val).tag = "Some"
        THEN Ok(json_as_bool(v.val).val)
        ELSE Err(<<"'", key, "' field should be a boolean">>)

(* SearchTokenizer::from_json_value: value["type"].as_str() names the      *)
(* tokenizer.  A value that is no object, or has no "type", or one that is *)
(* no string, has no type; a type that names no tokenizer is unknown.      *)
(* Four tokenizers are modelled (default, raw, en_stem, whitespace; the    *)
(* crate has more), and each error is the start of its message.            *)
SearchTokenizer_from_json_value(value) ==
    IF ~(/\ value.j = "object"
         /\ "type" \in DOMAIN value.members
         /\ value.members["type"].j = "string")
    THEN Err("a 'type' must be passed in pg_search tokenizer configuration")
    ELSE IF value.members["type"].str
                \in {"default", "raw", "en_stem", "whitespace"}
    THEN Ok(value.members["type"].str)
    ELSE Err("unknown tokenizer type")

(* The derived Deserialize of an enum of unit variants, read from a        *)
(* serde_json::Value: the name of a variant, or an object whose one member *)
(* is a variant name with null.  variants maps each name to its variant.   *)
unit_enum_deserialize(value, variants) ==
    CASE value.j = "string" ->
             IF value.str \in DOMAIN variants THEN Ok(variants[value.str])
             ELSE Err("unknown variant")
      [] value.j = "object" ->
             IF Cardinality(DOMAIN value.members) # 1 THEN Err("invalid value")
             ELSE LET variant == CHOOSE k \in DOMAIN value.members : TRUE
                  IN  IF variant \notin DOMAIN variants
                      THEN Err("unknown variant")
                      ELSE IF value.members[variant] = JNull
                      THEN Ok(variants[variant])
                      ELSE Err("invalid type")
      [] OTHER -> Err("invalid type")

(* The derived Deserialize of SearchTokenizer: a unit variant is its name. *)
SearchTokenizer_deserialize(value) ==
    unit_enum_deserialize(value, [Default |-> "default", Raw |-> "raw",
                                  EnStem |-> "en_stem",
                                  WhiteSpace |-> "whitespace"])

(* Deserialize of IndexRecordOption *)
IndexRecordOption_deserialize(value) ==
    unit_enum_deserialize(value, [basic |-> "Basic", freq |-> "WithFreqs",
                                  position |-> "WithFreqsAndPositions"])

(* Deserialize of SearchNormalizer *)
SearchNormalizer_deserialize(value) ==
    unit_enum_deserialize(value, [raw |-> "raw", lowercase |-> "lowercase"])

(* The value under a key, Null where the key is absent. *)
json_get(obj, key) == IF key \in DOMAIN obj THEN obj[key] ELSE JNull

(* match obj.get(key) { Some(v) => decode(v), None => Ok(default) }, with  *)
(* decoded the outcome of decoding the value under the key.                *)
key_or(obj, key, decoded, default) ==
    IF key \in DOMAIN obj THEN decoded ELSE Ok(default)

(* The first of the results that is not Ok, as the chain of ? returns it.  *)
RECURSIVE first_failure(_, _)
first_failure(results, i) ==
    IF i > Len(results) THEN None
    ELSE IF results[i].tag # "Ok" THEN Some(results[i])
    ELSE first_failure(results, i + 1)

text_from_json(value) ==
    LET o == json_as_object(value)
    IN  IF o.tag = "None"
        THEN Err("Expected a JSON object for Text configuration")
        ELSE
    LET obj == o.val
        indexed == bool_key(obj, "indexed", TRUE)
        fast == bool_key(obj, "fast", FALSE)
        stored == bool_key(obj, "stored", TRUE)
        fieldnorms == bool_key(obj, "fieldnorms", TRUE)
        tokenizer == key_or(obj, "tokenizer",
                            SearchTokenizer_from_json_value(json_get(obj, "tokenizer")),
                            "default")
        record == key_or(obj, "record",
                            IndexRecordOption_deserialize(json_get(obj, "record")),
                         default_as_freqs_and_positions)
        normalizer == key_or(obj, "normalizer",
                            SearchNormalizer_deserialize(json_get(obj, "normalizer")),
                             "raw")
        failed == first_failure(<<indexed, fast, stored, fieldnorms, tokenizer,
                                  record, normalizer>>, 1)
    IN  IF failed.tag = "Some" THEN failed.val
        ELSE Ok([family |-> "Text", indexed |-> indexed.val, fast |-> fast.val,
                 stored |-> stored.val, fieldnorms |-> fieldnorms.val,
                 tokenizer |-> tokenizer.val, record |-> record.val,
                 normalizer |-> normalizer.val])

json_from_json(value) ==
    LET o == json_as_object(value)
    IN  IF o.tag = "None"
        THEN Err("Expected a JSON object for Json configuration")
        ELSE
    LET obj == o.val
        indexed == bool_key(obj, "indexed", TRUE)
        fast == bool_key(obj, "fast", FALSE)
        stored == bool_key(obj, "stored", TRUE)
        expand_dots == bool_key(obj, "expand_dots", TRUE)
        tokenizer == key_or(obj, "tokenizer",
                            SearchTokenizer_from_json_value(json_get(obj, "tokenizer")),
                            "default")
        record == key_or(obj, "record",
                            IndexRecordOption_deserialize(json_get(obj, "record")),
                         default_as_freqs_and_positions)
        normalizer == key_or(obj, "normalizer",
                            SearchNormalizer_deserialize(json_get(obj, "normalizer")),
                             "raw")
        failed == first_failure(<<indexed, fast, stored, expand_dots, tokenizer,
                                  record, normalizer>>, 1)
    IN  IF failed.tag = "Some" THEN failed.val
        ELSE Ok([family |-> "Json", indexed |-> indexed.val, fast |-> fast.val,
                 stored |-> stored.val, expand_dots |-> expand_dots.val,
                 tokenizer |-> tokenizer.val, record |-> record.val,
                 normalizer |-> normalizer.val])

numeric_from_json(value) ==
    LET o == json_as_object(value)
    IN  IF o.tag = "None"
        THEN Err("Expected a JSON object for Numeric configuration")
        ELSE
    LET obj == o.val
        indexed == bool_key(obj, "indexed", TRUE)
        fast == bool_key(obj, "fast", TRUE)
        stored == bool_key(obj, "stored", TRUE)
        failed == first_failure(<<indexed, fast, stored>>, 1)
    IN  IF failed.tag = "Some" THEN failed.val
        ELSE Ok([family |-> "Numeric", indexed |-> indexed.val,
                 fast |-> fast.val, stored |-> stored.val])

boolean_from_json(value) ==
    LET o == json_as_object(value)
    IN  IF o.tag = "None"
        THEN Err("Expected a JSON object for Boolean configuration")
        ELSE
    LET obj == o.val
        indexed == bool_key(obj, "indexed", TRUE)
        fast == bool_key(obj, "fast", TRUE)
        stored == bool_key(obj, "stored", TRUE)
        failed == first_failure(<<indexed, fast, stored>>, 1)
    IN  IF failed.tag = "Some" THEN failed.val
        ELSE Ok([family |-> "Boolean", indexed |-> indexed.val,
                 fast |-> fast.val, stored |-> stored.val])

date_from_json(value) ==
    LET o == json_as_object(value)
    IN  IF o.tag = "None"
        THEN Err("Expected a JSON object for Date configuration")
        ELSE
    LET obj == o.val
        indexed == bool_key(obj, "indexed", TRUE)
        fast == bool_key(obj, "fast", TRUE)
        stored == bool_key(obj, "stored", TRUE)
        failed == first_failure(<<indexed, fast, stored>>, 1)
    IN  IF failed.tag = "Some" THEN failed.val
        ELSE Ok([family |-> "Date", indexed |-> indexed.val,
                 fast |-> fast.val, stored |-> stored.val])

(* The derived Deserialize of a bool field. *)
bool_deserialize(value) ==
    IF value.j = "bool" THEN Ok(value.b) ELSE Err("invalid type")

(* The derived Deserialize of the struct variants: a key that is missing   *)
(* takes its #[serde(default)], a key that is not a field of the variant   *)
(* is ignored, and the content must be an object.  The members are read in *)
(* the order serde_json's Map holds them, the ascending order of the keys, *)
(* and the first that fails is the error.                                  *)
text_deserialize(content) ==
    IF content.j # "object" THEN Err("invalid type")
    ELSE
    LET obj == content.members
        indexed == key_or(obj, "indexed",
                            bool_deserialize(json_get(obj, "indexed")), default_as_true)
        fast == key_or(obj, "fast",
                            bool_deserialize(json_get(obj, "fast")), FALSE)
        stored == key_or(obj, "stored",
                            bool_deserialize(json_get(obj, "stored")), default_as_true)
        fieldnorms == key_or(obj, "fieldnorms",
                            bool_deserialize(json_get(obj, "fieldnorms")), default_as_true)
        tokenizer == key_or(obj, "tokenizer",
                            SearchTokenizer_deserialize(json_get(obj, "tokenizer")),
                            "default")
        record == key_or(obj, "record",
                            IndexRecordOption_deserialize(json_get(obj, "record")),
                         default_as_freqs_and_positions)
        normalizer == key_or(obj, "normalizer",
                            SearchNormalizer_deserialize(json_get(obj, "normalizer")),
                             "raw")
        failed == first_failure(<<fast, fieldnorms, indexed, normalizer,
                                  record, stored, tokenizer>>, 1)
    IN  IF failed.tag = "Some" THEN failed.val
        ELSE Ok([family |-> "Text", indexed |-> indexed.val, fast |-> fast.val,
                 stored |-> stored.val, fieldnorms |-> fieldnorms.val,
                 tokenizer |-> tokenizer.val, record |-> record.val,
                 normalizer |-> normalizer.val])

json_deserialize(content) ==
    IF content.j # "object" THEN Err("invalid type")
    ELSE
    LET obj == content.members
        indexed == key_or(obj, "indexed",
                            bool_deserialize(json_get(obj, "indexed")), default_as_true)
        fast == key_or(obj, "fast",
                            bool_deserialize(json_get(obj, "fast")), FALSE)
        stored == key_or(obj, "stored",
                            bool_deserialize(json_get(obj, "stored")), default_as_true)
        expand_dots == key_or(obj, "expand_dots",
                            bool_deserialize(json_get(obj, "expand_dots")),
                              default_as_true)
        tokenizer == key_or(obj, "tokenizer",
                            SearchTokenizer_deserialize(json_get(obj, "tokenizer")),
                            "default")
        record == key_or(obj, "record",
                            IndexRecordOption_deserialize(json_get(obj, "record")),
                         default_as_freqs_and_positions)
        normalizer == key_or(obj, "normalizer",
                            SearchNormalizer_deserialize(json_get(obj, "normalizer")),
                             "raw")
        failed == first_failure(<<expand_dots, fast, indexed, normalizer,
                                  record, stored, tokenizer>>, 1)
    IN  IF failed.tag = "Some" THEN failed.val
        ELSE Ok([family |-> "Json", indexed |-> indexed.val, fast |-> fast.val,
                 stored |-> stored.val, expand_dots |-> expand_dots.val,
                 tokenizer |-> tokenizer.val, record |-> record.val,
                 normalizer |-> normalizer.val])

(* Numeric, Boolean and Date have the same three fields. *)
flags_deserialize(family, content) ==
    IF content.j # "object" THEN Err("invalid type")
    ELSE
    LET obj == content.members
        indexed == key_or(obj, "indexed",
                            bool_deserialize(json_get(obj, "indexed")), default_as_true)
        fast == key_or(obj, "fast",
                            bool_deserialize(json_get(obj, "fast")), default_as_true)
        stored == key_or(obj, "stored",
                            bool_deserialize(json_get(obj, "stored")), default_as_true)
        failed == first_failure(<<fast, indexed, stored>>, 1)
    IN  IF failed.tag = "Some" THEN failed.val
        ELSE Ok([family |-> family, indexed |-> indexed.val,
                 fast |-> fast.val, stored |-> stored.val])

(* The derived Deserialize of the enum (externally tagged), read from a    *)
(* serde_json::Value: an object with one member, the variant name with its *)
(* content, or the bare name of a unit variant.  An object of no or        *)
(* several members is an invalid value, a name that is no variant an       *)
(* unknown variant, and the bare name of a struct variant an invalid type. *)
SearchFieldConfig_deserialize(value) ==
    CASE value.j = "string" ->
             IF value.str = "Ctid" THEN Ok(Ctid)
             ELSE IF value.str \in {"Text", "Json", "Numeric", "Boolean", "Date"}
             THEN Err("invalid type")
             ELSE Err("unknown variant")
      [] value.j = "object" /\ Cardinality(DOMAIN value.members) # 1 ->
             Err("invalid value")
      [] value.j = "object" /\ Cardinality(DOMAIN value.members) = 1 ->
             LET variant == CHOOSE k \in DOMAIN value.members : TRUE
                 content == value.members[variant]
             IN  CASE variant = "Text" -> text_deserialize(content)
                   [] variant = "Json" -> json_deserialize(content)
                   [] variant \in {"Numeric", "Boolean", "Date"} ->
                          flags_deserialize(variant, content)
                   [] variant = "Ctid" ->
                          IF content = JNull THEN Ok(Ctid)
                          ELSE Err("invalid type")
                   [] OTHER -> Err("unknown variant")
      [] OTHER -> Err("invalid type")

(* serde_json::from_value(value).unwrap() *)
from_json(value) ==
    LET decoded == SearchFieldConfig_deserialize(value)
    IN  IF decoded.tag = "Ok" THEN decoded
        ELSE Panic("called Result::unwrap() on an Err value")

(* json!({family: content}) *)
Tagged(family, content) == JObject((family :> content))

(* The per-family parser of a family. *)
family_from_json(family, value) ==
    CASE family = "Text" -> text_from_json(value)
      [] family = "Json" -> json_from_json(value)
      [] family = "Numeric" -> numeric_from_json(value)
      [] family = "Boolean" -> boolean_from_json(value)
      [] family = "Date" -> date_from_json(value)

----------------------------------------------------------------------------
(* The derived Serialize of SearchFieldConfig (serde_json::to_value): a    *)
(* struct variant is written as {variant: {every field}}, the unit variant *)
(* as its bare name.                                                       *)

(* Serialize of SearchTokenizer: a unit variant is its name. *)
SearchTokenizer_serialize(tokenizer) ==
    CASE tokenizer = "default" -> JString("Default")
      [] tokenizer = "raw" -> JString("Raw")
      [] tokenizer = "en_stem" -> JString("EnStem")
      [] tokenizer = "whitespace" -> JString("WhiteSpace")

(* Serialize of IndexRecordOption *)
IndexRecordOption_serialize(record) ==
    CASE record = "Basic" -> JString("basic")
      [] record = "WithFreqs" -> JString("freq")
      [] record = "WithFreqsAndPositions" -> JString("position")

(* Serialize of SearchNormalizer *)
SearchNormalizer_serialize(normalizer) ==
    CASE normalizer = "raw" -> JString("raw")
      [] normalizer = "lowercase" -> JString("lowercase")

(* The serialised form of one field of a variant. *)
field_serialize(key, v) ==
    CASE key = "tokenizer" -> SearchTokenizer_serialize(v)
      [] key = "record" -> IndexRecordOption_serialize(v)
      [] key = "normalizer" -> SearchNormalizer_serialize(v)
      [] OTHER -> JBool(v)

(* A Serialize that leaves out the fast field. *)
SearchFieldConfig_serialize_without_fast(config) ==
    IF config = Ctid THEN JString("Ctid")
    ELSE Tagged(config.family,
                JObject([k \in DOMAIN config \ {"family", "fast"} |->
                            field_serialize(k, config[k])]))

SearchFieldConfig_serialize(config) ==
    IF config = Ctid THEN JString("Ctid")
    ELSE Tagged(config.family,
                JObject([k \in DOMAIN config \ {"family"} |->
                            field_serialize(k, config[k])]))

----------------------------------------------------------------------------
(* The wire form of a query input: the derived Serialize and Deserialize   *)
(* of SearchQueryInput, with the engine's Serialize and Deserialize of a   *)
(* literal value.  A text is written as JText, a name (a variant, a unit   *)
(* value) as JString; an integer is a PosInt (u64, four limbs) or a NegInt *)
(* (i64 below zero, its 64 bits), as serde_json::Number holds it.          *)

JArray(items) == [j |-> "array", items |-> items]

JText(text) == [j |-> "string", text |-> text]

JPosInt(bits) == [j |-> "number", pos |-> bits]

JNegInt(bits) == [j |-> "number", neg |-> bits]

JFloat(f) == [j |-> "number", float |-> f]

(* The decimal digits of n, w of them. *)
RECURSIVE NDigits(_, _)
NDigits(n, w) ==
    IF w = 0 THEN <<>>
    ELSE Append(NDigits(n \div 10, w - 1), Digits[(n % 10) + 1])

(* The digits of a fraction of w digits without its trailing zeros. *)
RECURSIVE FractionDigits(_, _)
FractionDigits(n, w) ==
    IF n % 10 = 0 THEN FractionDigits(n \div 10, w - 1) ELSE NDigits(n, w)

(* The civil date of a day count from 1970-01-01. *)
CivilFromDays(days) ==
    LET z == days + 719468
        era == z \div 146097
        doe == z - era * 146097
        yoe == (doe - doe \div 1460 + doe \div 36524 - doe \div 146096) \div 365
        doy == doe - (365 * yoe + yoe \div 4 - yoe \div 100)
        mp == (5 * doy + 2) \div 153
        d == doy - (153 * mp + 2) \div 5 + 1
        m == IF mp < 10 THEN mp + 3 ELSE mp - 9
        y == yoe + era * 400 + (IF m <= 2 THEN 1 ELSE 0)
    IN  [year |-> y, month |-> m, day |-> d]

(* time::serde::rfc3339 of date.into_utc(): "2024-07-10T12:00:00Z", with   *)
(* the fraction of the second when there is one.  into_utc expects the     *)
(* instant to be one of the time crate (years -9999 to 9999) and panics on *)
(* another; the format has years 0 to 9999 only and is an error on a year  *)
(* below zero.                                                             *)
format_rfc3339(date) ==
    LET civil == CivilFromDays(date.days)
    IN  IF civil.year < 0 - 9999 \/ civil.year > 9999
        THEN Panic("valid UNIX timestamp")
        ELSE IF civil.year < 0 THEN Err("custom")
        ELSE Ok(NDigits(civil.year, 4) \o <<"-">> \o NDigits(civil.month, 2)
                \o <<"-">> \o NDigits(civil.day, 2) \o <<"T">>
                \o NDigits(date.secs \div 3600, 2) \o <<":">>
                \o NDigits((date.secs % 3600) \div 60, 2) \o <<":">>
                \o NDigits(date.secs % 60, 2)
                \o (IF date.micros = 0 THEN <<>>
                    ELSE <<".">> \o FractionDigits(date.micros, 6))
                \o <<"Z">>)

(* The sign bit of the 64 bits. *)
IsNegative(bits) == bits[1] >= 32768

(* A float, f32 or f64 alike, is held as the number it is: a sign (1 below *)
(* zero), the binary digits of its significand from the leading 1 to the   *)
(* last 1, and the exponent of two of the leading digit; zero has no       *)
(* digits.  An f32 has at most 24 digits and an f64 at most 53, so that    *)
(* widening (f32 as f64) leaves the float as it is.                        *)
Finite(sign, bits, exp) ==
    [class |-> "finite", sign |-> sign, bits |-> bits, exp |-> exp]

NaN == [class |-> "nan", sign |-> 0, bits |-> <<>>, exp |-> 0]

Infinity(sign) == [class |-> "infinite", sign |-> sign, bits |-> <<>>, exp |-> 0]

RECURSIVE Pow2(_)
Pow2(n) == IF n = 0 THEN 1 ELSE 2 * Pow2(n - 1)

(* The digits without the zeros they end with. *)
RECURSIVE trim_zeros(_)
trim_zeros(bits) ==
    IF bits = <<>> \/ bits[Len(bits)] = 1 THEN bits
    ELSE trim_zeros(SubSeq(bits, 1, Len(bits) - 1))

(* The digits without the zeros they start with. *)
RECURSIVE strip_zeros(_)
strip_zeros(bits) ==
    IF bits = <<>> \/ bits[1] = 1 THEN bits ELSE strip_zeros(Tail(bits))

(* One more at place i of the digits; the carry out of the first place     *)
(* makes them one digit longer.                                            *)
RECURSIVE round_up(_, _)
round_up(bits, i) ==
    IF i = 0 THEN <<1>> \o bits
    ELSE IF bits[i] = 0 THEN [bits EXCEPT ![i] = 1]
    ELSE round_up([bits EXCEPT ![i] = 0], i - 1)

(* The digits rounded to the first k of them, to the nearest and a tie to  *)
(* the even: the digits end with a 1, so digit k + 1 is a tie when it is   *)
(* the last.  The result has k + 1 digits when the rounding carries.       *)
rounded(bits, k) ==
    IF Len(bits) <= k THEN bits
    ELSE IF bits[k + 1] = 1 /\ (Len(bits) > k + 1 \/ (k >= 1 /\ bits[k] = 1))
    THEN round_up(SubSeq(bits, 1, k), k)
    ELSE SubSeq(bits, 1, k)

(* The f32 of the digits that rounding to k places gave. *)
f32_of(sign, exp, k, digits) ==
    IF trim_zeros(digits) = <<>> THEN Finite(sign, <<>>, 0)
    ELSE IF (IF Len(digits) > k THEN exp + 1 ELSE exp) > 127 THEN Infinity(sign)
    ELSE Finite(sign, trim_zeros(digits),
                IF Len(digits) > k THEN exp + 1 ELSE exp)

(* f as f32: 24 digits down to the exponent -126, fewer below it (the      *)
(* last place of an f32 is 2^-149), nothing below 2^-150; infinite above   *)
(* the largest f32.                                                        *)
as_f32(f) ==
    IF f.class # "finite" \/ f.bits = <<>> THEN f
    ELSE IF f.exp < 0 - 150 THEN Finite(f.sign, <<>>, 0)
    ELSE IF f.exp >= 0 - 126 THEN f32_of(f.sign, f.exp, 24, rounded(f.bits, 24))
    ELSE f32_of(f.sign, f.exp, f.exp + 150, rounded(f.bits, f.exp + 150))

(* The 16 binary digits of a limb. *)
LimbBits(limb) == [i \in 1..16 |-> (limb \div Pow2(16 - i)) % 2]

(* The 64 binary digits of four limbs. *)
Bits64(limbs) ==
    LimbBits(limbs[1]) \o LimbBits(limbs[2]) \o LimbBits(limbs[3])
    \o LimbBits(limbs[4])

(* The float that is the integer of the digits (none that is zero         *)
(* leading), with a sign.                                                  *)
integer_as_float(sign, digits) ==
    IF digits = <<>> THEN Finite(0, <<>>, 0)
    ELSE Finite(sign, trim_zeros(digits), Len(digits) - 1)

(* u64 as f32 *)
u64_as_f32(limbs) == as_f32(integer_as_float(0, strip_zeros(Bits64(limbs))))

(* The magnitude of an i64 below zero, the complement of its 64 digits     *)
(* plus one: the digits down from the last 1 stay, those above it turn.    *)
Magnitude(bits) ==
    SubSeq([i \in 1..64 |->
               IF \E j \in (i + 1)..64 : bits[j] = 1 THEN 1 - bits[i]
               ELSE bits[i]], 1, 64)

(* i64 as f32, for an i64 below zero *)
i64_as_f32(limbs) ==
    as_f32(integer_as_float(1, strip_zeros(Magnitude(Bits64(limbs)))))

Half == Finite(0, <<1>>, 0 - 1)

One == Finite(0, <<1>>, 0)

OneAndHalf == Finite(0, <<1, 1>>, 0)

Two == Finite(0, <<1>>, 1)

(* 0.1f32, the f32 nearest to a tenth: 13421773 * 2^-27 *)
TenthF32 ==
    Finite(0, <<
              1, 1, 0, 0, 1, 1, 0, 0, 1, 1, 0, 0, 1, 1, 0, 0, 1, 1, 0, 0,
              1, 1, 0, 1>>, 0 - 4)

(* 0.1, the f64 nearest to a tenth: 3602879701896397 * 2^-55 *)
Tenth ==
    Finite(0, <<
              1, 1, 0, 0, 1, 1, 0, 0, 1, 1, 0, 0, 1, 1, 0, 0, 1, 1, 0, 0,
              1, 1, 0, 0, 1, 1, 0, 0, 1, 1, 0, 0, 1, 1, 0, 0, 1, 1, 0, 0,
              1, 1, 0, 0, 1, 1, 0, 0, 1, 1, 0, 1>>, 0 - 4)

(* serde_json's Value of a float: Number::from_f64 has no number for a     *)
(* float that is not finite, and the value is null.                        *)
float_serialize(f) == IF f.class # "finite" THEN JNull ELSE JFloat(f)

(* The decimal digits of n (Display of an integer). *)
RECURSIVE decimal(_)
decimal(n) ==
    IF n < 10 THEN <<Digits[n + 1]>>
    ELSE Append(decimal(n \div 10), Digits[(n % 10) + 1])

HexDigits ==
    <<"0", "1", "2", "3", "4", "5", "6", "7", "8", "9",
      "a", "b", "c", "d", "e", "f">>

(* The hexadecimal digits of n ({:x}). *)
RECURSIVE hex(_)
hex(n) ==
    IF n < 16 THEN <<HexDigits[n + 1]>>
    ELSE Append(hex(n \div 16), HexDigits[(n % 16) + 1])

(* escape_slashes of a step of a facet: a slash and a backslash are each   *)
(* written as a backslash and a slash.                                     *)
RECURSIVE escape_slashes(_)
escape_slashes(step) ==
    IF step = <<>> THEN <<>>
    ELSE (IF Head(step) \in {"/", "\\"} THEN <<"\\", "/">> ELSE <<Head(step)>>)
         \o escape_slashes(Tail(step))

(* The steps of a facet, each after a slash. *)
RECURSIVE fmt_steps(_)
fmt_steps(steps) ==
    IF steps = <<>> THEN <<>>
    ELSE <<"/">> \o escape_slashes(Head(steps)) \o fmt_steps(Tail(steps))

(* Display of Facet: the root is "/". *)
Facet_to_string(steps) ==
    IF steps = <<>> THEN <<"/">> ELSE fmt_steps(steps)

Base64Alphabet ==
    <<"A", "B", "C", "D", "E", "F", "G", "H", "I", "J", "K", "L", "M",
      "N", "O", "P", "Q", "R", "S", "T", "U", "V", "W", "X", "Y", "Z",
      "a", "b", "c", "d", "e", "f", "g", "h", "i", "j", "k", "l", "m",
      "n", "o", "p", "q", "r", "s", "t", "u", "v", "w", "x", "y", "z",
      "0", "1", "2", "3", "4", "5", "6", "7", "8", "9", "+", "/">>

(* base64 STANDARD: four characters for every three bytes, the last group  *)
(* padded with "=".                                                        *)
RECURSIVE base64_encode(_)
base64_encode(bytes) ==
    IF bytes = <<>> THEN <<>>
    ELSE IF Len(bytes) = 1
    THEN <<Base64Alphabet[(bytes[1] \div 4) + 1],
           Base64Alphabet[((bytes[1] % 4) * 16) + 1], "=", "=">>
    ELSE IF Len(bytes) = 2
    THEN <<Base64Alphabet[(bytes[1] \div 4) + 1],
           Base64Alphabet[((bytes[1] % 4) * 16) + (bytes[2] \div 16) + 1],
           Base64Alphabet[((bytes[2] % 16) * 4) + 1], "=">>
    ELSE <<Base64Alphabet[(bytes[1] \div 4) + 1],
           Base64Alphabet[((bytes[1] % 4) * 16) + (bytes[2] \div 16) + 1],
           Base64Alphabet[((bytes[2] % 16) * 4) + (bytes[3] \div 64) + 1],
           Base64Alphabet[(bytes[3] % 64) + 1]>>
         \o base64_encode(SubSeq(bytes, 4, Len(bytes)))

(* Ipv6Addr::to_ipv4_mapped: the four octets of ::ffff:a.b.c.d *)
to_ipv4_mapped(segments) ==
    IF SubSeq(segments, 1, 5) = <<0, 0, 0, 0, 0>> /\ segments[6] = 65535
    THEN Some(<<segments[7] \div 256, segments[7] % 256,
                segments[8] \div 256, segments[8] % 256>>)
    ELSE None

(* Display of Ipv4Addr *)
Ipv4Addr_to_string(octets) ==
    decimal(octets[1]) \o <<".">> \o decimal(octets[2]) \o <<".">>
    \o decimal(octets[3]) \o <<".">> \o decimal(octets[4])

(* The segments in hexadecimal with colons between them. *)
RECURSIVE fmt_subslice(_)
fmt_subslice(segments) ==
    IF segments = <<>> THEN <<>>
    ELSE IF Len(segments) = 1 THEN hex(segments[1])
    ELSE hex(segments[1]) \o <<":">> \o fmt_subslice(Tail(segments))

(* The number of zero segments in a row from segment i. *)
RECURSIVE zero_run(_, _)
zero_run(segments, i) ==
    IF i > Len(segments) \/ segments[i] # 0 THEN 0
    ELSE 1 + zero_run(segments, i + 1)

(* The length of the longest run of zero segments, and where the first     *)
(* run of that length starts.                                              *)
LongestRun(segments) ==
    CHOOSE n \in 0..8 :
        /\ \E i \in 1..8 : zero_run(segments, i) = n
        /\ \A i \in 1..8 : zero_run(segments, i) <= n

RunStart(segments, n) ==
    CHOOSE i \in 1..8 :
        /\ zero_run(segments, i) = n
        /\ \A j \in 1..(i - 1) : zero_run(segments, j) < n

(* The segments with the run of n zeros from start, when longer than one,  *)
(* written as "::".                                                        *)
fmt_segments(segments, start, n) ==
    IF n > 1
    THEN fmt_subslice(SubSeq(segments, 1, start - 1)) \o <<":", ":">>
         \o fmt_subslice(SubSeq(segments, start + n, 8))
    ELSE fmt_subslice(segments)

(* Display of Ipv6Addr *)
Ipv6Addr_to_string(segments) ==
    IF to_ipv4_mapped(segments).tag = "Some"
    THEN <<":", ":", "f", "f", "f", "f", ":">>
         \o Ipv4Addr_to_string(to_ipv4_mapped(segments).val)
    ELSE fmt_segments(segments, RunStart(segments, LongestRun(segments)),
                      LongestRun(segments))

(* #[derive(Serialize)] of Token *)
Token_serialize(token) ==
    JObject([offset_from |-> JPosInt(token.offset_from),
             offset_to |-> JPosInt(token.offset_to),
             position |-> JPosInt(token.position),
             text |-> JText(token.text),
             position_length |-> JPosInt(token.position_length)])

(* #[derive(Serialize)] of PreTokenizedString *)
PreTokenizedString_serialize(text, tokens) ==
    JObject([text |-> JText(text),
             tokens |-> JArray([i \in DOMAIN tokens |->
                                   Token_serialize(tokens[i])])])

(* impl Serialize for Value: serialize_str, serialize_u64, serialize_i64   *)
(* (serde_json keeps an i64 that is not below zero as a PosInt),           *)
(* serialize_f64, serialize_bool, a date as its RFC 3339 text, a facet as  *)
(* its path, bytes as their base64 text, a JSON object as it is, an        *)
(* address as its text (one that maps an IPv4 address as that address)     *)
(* and a pre-tokenized string as the object of its text and tokens.        *)
Value_serialize(value) ==
    CASE value.kind = "Str" -> Ok(JText(value.text))
      [] value.kind = "PreTokStr" ->
             Ok(PreTokenizedString_serialize(value.text, value.tokens))
      [] value.kind = "U64" -> Ok(JPosInt(value.u64))
      [] value.kind = "I64" ->
             IF IsNegative(value.i64) THEN Ok(JNegInt(value.i64))
             ELSE Ok(JPosInt(value.i64))
      [] value.kind = "F64" -> Ok(float_serialize(value.f64))
      [] value.kind = "Bool" -> Ok(JBool(value.bool))
      [] value.kind = "Date" ->
             IF format_rfc3339(value.date).tag = "Ok"
             THEN Ok(JText(format_rfc3339(value.date).val))
             ELSE format_rfc3339(value.date)
      [] value.kind = "Facet" -> Ok(JText(Facet_to_string(value.facet)))
      [] value.kind = "Bytes" -> Ok(JText(base64_encode(value.bytes)))
      [] value.kind = "JsonObject" -> Ok(JObject(value.object))
      [] value.kind = "IpAddr" ->
             IF to_ipv4_mapped(value.ip).tag = "Some"
             THEN Ok(JText(Ipv4Addr_to_string(to_ipv4_mapped(value.ip).val)))
             ELSE Ok(JText(Ipv6Addr_to_string(value.ip)))

(* impl Deserialize for Value: visit_bool, visit_i64, visit_u64,           *)
(* visit_f64 and visit_str, each giving the value of its own kind.         *)
Value_deserialize(json) ==
    CASE json.j = "bool" -> Ok(BoolValue(json.b))
      [] json.j = "number" /\ "pos" \in DOMAIN json -> Ok(U64Value(json.pos))
      [] json.j = "number" /\ "neg" \in DOMAIN json -> Ok(I64Value(json.neg))
      [] json.j = "number" /\ "float" \in DOMAIN json -> Ok(F64Value(json.float))
      [] json.j = "string" /\ "text" \in DOMAIN json -> Ok(StrValue(json.text))
      [] OTHER -> Err("invalid type")

(* The types of the fields of SearchQueryInput. *)
T_Query == [t |-> "query"]

T_String == [t |-> "string"]

T_Value == [t |-> "value"]

T_Bool == [t |-> "bool"]

T_F32 == [t |-> "f32"]

(* u8, held as an integer. *)
T_U8 == [t |-> "u8"]

(* u32, held as its two limbs, and usize (64 bits), as its four. *)
T_U32 == [t |-> "u32"]

T_Usize == [t |-> "usize"]

(* u64, held as its four limbs. *)
T_U64 == [t |-> "u64"]

(* The u64 of a Bound<u64>, held as [u64 |-> limbs]. *)
T_BoundU64 == [t |-> "bound_u64"]

T_Option(of) == [t |-> "option", of |-> of]

T_Vec(of) == [t |-> "vec", of |-> of]

T_Bound(of) == [t |-> "bound", of |-> of]

(* (String, Value) *)
T_Pair == [t |-> "pair"]

UnitVariants == {"All", "Empty"}

(* The fields of each struct variant with their types. *)
VariantFields ==
    [Boolean |-> [must |-> T_Vec(T_Query), should |-> T_Vec(T_Query),
                  must_not |-> T_Vec(T_Query)],
     Boost |-> [query |-> T_Query, boost |-> T_F32],
     ConstScore |-> [query |-> T_Query, score |-> T_F32],
     DisjunctionMax |-> [disjuncts |-> T_Vec(T_Query),
                         tie_breaker |-> T_Option(T_F32)],
     FastFieldRangeWeight |-> [field |-> T_String,
                               lower_bound |-> T_Bound(T_BoundU64),
                               upper_bound |-> T_Bound(T_BoundU64)],
     FuzzyTerm |-> [field |-> T_String, value |-> T_String,
                    distance |-> T_Option(T_U8),
                    tranposition_cost_one |-> T_Option(T_Bool),
                    prefix |-> T_Option(T_Bool)],
     MoreLikeThis |-> [min_doc_frequency |-> T_Option(T_U64),
                       max_doc_frequency |-> T_Option(T_U64),
                       min_term_frequency |-> T_Option(T_Usize),
                       max_query_terms |-> T_Option(T_Usize),
                       min_word_length |-> T_Option(T_Usize),
                       max_word_length |-> T_Option(T_Usize),
                       boost_factor |-> T_Option(T_F32),
                       stop_words |-> T_Option(T_Vec(T_String)),
                       fields |-> T_Vec(T_Pair)],
     Parse |-> [query_string |-> T_String],
     Phrase |-> [field |-> T_String, phrases |-> T_Vec(T_String),
                 slop |-> T_Option(T_U32)],
     PhrasePrefix |-> [field |-> T_String, phrases |-> T_Vec(T_String),
                       max_expansions |-> T_Option(T_U32)],
     Range |-> [field |-> T_String, lower_bound |-> T_Bound(T_Value),
                upper_bound |-> T_Bound(T_Value)],
     Regex |-> [field |-> T_String, pattern |-> T_String],
     Term |-> [field |-> T_Option(T_String), value |-> T_Value],
     TermSet |-> [terms |-> T_Vec(T_Pair)]]

(* The fields of each struct variant in the order of their declaration. *)
VariantOrder ==
    [Boolean |-> <<"must", "should", "must_not">>,
     Boost |-> <<"query", "boost">>,
     ConstScore |-> <<"query", "score">>,
     DisjunctionMax |-> <<"disjuncts", "tie_breaker">>,
     FastFieldRangeWeight |-> <<"field", "lower_bound", "upper_bound">>,
     FuzzyTerm |-> <<"field", "value", "distance", "tranposition_cost_one",
                     "prefix">>,
     MoreLikeThis |-> <<"min_doc_frequency", "max_doc_frequency",
                        "min_term_frequency", "max_query_terms",
                        "min_word_length", "max_word_length", "boost_factor",
                        "stop_words", "fields">>,
     Parse |-> <<"query_string">>,
     Phrase |-> <<"field", "phrases", "slop">>,
     PhrasePrefix |-> <<"field", "phrases", "max_expansions">>,
     Range |-> <<"field", "lower_bound", "upper_bound">>,
     Regex |-> <<"field", "pattern">>,
     Term |-> <<"field", "value">>,
     TermSet |-> <<"terms">>]

(* Every field name in ascending order, the order in which serde_json's    *)
(* Map holds the members of an object.                                     *)
SortedFieldNames ==
    <<"boost", "boost_factor", "disjuncts", "distance", "field", "fields",
      "lower_bound", "max_doc_frequency", "max_expansions", "max_query_terms",
      "max_word_length", "min_doc_frequency", "min_term_frequency",
      "min_word_length", "must", "must_not", "pattern", "phrases", "prefix",
      "query", "query_string", "score", "should", "slop", "stop_words",
      "terms", "tie_breaker", "tranposition_cost_one", "upper_bound", "value">>

(* The members of names among the first n of order, in that order. *)
RECURSIVE Among(_, _, _)
Among(order, n, names) ==
    IF n = 0 THEN <<>>
    ELSE IF order[n] \in names
    THEN Append(Among(order, n - 1, names), order[n])
    ELSE Among(order, n - 1, names)

(* The document of a pair from the document of its name and the result of  *)
(* its literal.                                                            *)
pair_serialize(first, second) ==
    IF second.tag # "Ok" THEN second
    ELSE Ok(JArray(<<first, second.val>>))

(* The result of a sequence of results: the first that is not Ok, else the *)
(* array of the documents.                                                 *)
seq_result(items, failed) ==
    IF failed.tag = "Some" THEN failed.val
    ELSE Ok(JArray([i \in 1..Len(items) |-> items[i].val]))

(* The result of a struct variant: the first field, in the order of the    *)
(* declaration, that is not Ok, else the tagged object of the documents.   *)
variant_result(variant, fields, failed) ==
    IF failed.tag = "Some" THEN failed.val
    ELSE Ok(Tagged(variant, JObject([k \in DOMAIN fields |-> fields[k].val])))

(* The result with what it holds tagged. *)
tagged_result(tag, inner) ==
    IF inner.tag = "Ok" THEN Ok(Tagged(tag, inner.val)) ELSE inner

(* #[derive(Serialize)]: the document of a value of a type, or the error   *)
(* or panic of the first literal that has no document.                     *)
RECURSIVE serialize(_, _)
serialize(type, v) ==
    CASE type.t = "string" -> Ok(JText(v))
      [] type.t = "value" -> Value_serialize(v)
      [] type.t = "bool" -> Ok(JBool(v))
      [] type.t = "f32" -> Ok(float_serialize(v))
      [] type.t = "u8" -> Ok(JPosInt(<<0, 0, 0, v>>))
      [] type.t = "u32" -> Ok(JPosInt(<<0, 0, v[1], v[2]>>))
      [] type.t \in {"u64", "usize"} -> Ok(JPosInt(v))
      [] type.t = "bound_u64" -> Ok(JPosInt(v.u64))
      [] type.t = "option" ->
             IF v.tag = "None" THEN Ok(JNull) ELSE serialize(type.of, v.val)
      [] type.t = "vec" ->
             seq_result([i \in DOMAIN v |-> serialize(type.of, v[i])],
                        first_failure([i \in DOMAIN v |->
                                          serialize(type.of, v[i])], 1))
      [] type.t = "bound" ->
             IF v.bound = "Unbounded" THEN Ok(JString("Unbounded"))
             ELSE tagged_result(v.bound, serialize(type.of, v.val))
      [] type.t = "pair" -> pair_serialize(JText(v[1]), Value_serialize(v[2]))
      [] type.t = "query" ->
             IF v.variant \in UnitVariants THEN Ok(JString(v.variant))
             ELSE variant_result(v.variant,
                      [k \in DOMAIN VariantFields[v.variant] |->
                          serialize(VariantFields[v.variant][k], v[k])],
                      first_failure(
                          [i \in 1..Len(VariantOrder[v.variant]) |->
                              serialize(
                                  VariantFields[v.variant][VariantOrder[v.variant][i]],
                                  v[VariantOrder[v.variant][i]])], 1))

IsName(json) == json.j = "string" /\ "str" \in DOMAIN json

IsText(json) == json.j = "string" /\ "text" \in DOMAIN json

IsPosInt(json) == json.j = "number" /\ "pos" \in DOMAIN json

IsNegInt(json) == json.j = "number" /\ "neg" \in DOMAIN json

IsFloat(json) == json.j = "number" /\ "float" \in DOMAIN json

(* The one member of an externally tagged document. *)
TagOf(json) == CHOOSE k \in DOMAIN json.members : TRUE

(* Deserialize of u8: a number from 0 to 255. *)
u8_deserialize(json) ==
    IF IsPosInt(json)
    THEN IF json.pos[1] = 0 /\ json.pos[2] = 0 /\ json.pos[3] = 0
            /\ json.pos[4] <= 255
         THEN Ok(json.pos[4])
         ELSE Err("invalid value")
    ELSE IF IsNegInt(json) THEN Err("invalid value")
    ELSE Err("invalid type")

(* Deserialize of u32: a number from 0 that has 32 bits. *)
u32_deserialize(json) ==
    IF IsPosInt(json)
    THEN IF json.pos[1] = 0 /\ json.pos[2] = 0
         THEN Ok(<<json.pos[3], json.pos[4]>>)
         ELSE Err("invalid value")
    ELSE IF IsNegInt(json) THEN Err("invalid value")
    ELSE Err("invalid type")

(* Deserialize of u64, and of usize, which has 64 bits. *)
u64_deserialize(json) ==
    IF IsPosInt(json) THEN Ok(json.pos)
    ELSE IF IsNegInt(json) THEN Err("invalid value")
    ELSE Err("invalid type")

(* Deserialize of f32: visit_f64, visit_u64 and visit_i64 each convert the *)
(* number with as.                                                         *)
f32_deserialize(json) ==
    IF IsFloat(json) THEN Ok(as_f32(json.float))
    ELSE IF IsPosInt(json) THEN Ok(u64_as_f32(json.pos))
    ELSE IF IsNegInt(json) THEN Ok(i64_as_f32(json.neg))
    ELSE Err("invalid type")

(* The content of a unit variant given as the member of an object: null. *)
unit_content(json, value) ==
    IF json = JNull THEN Ok(value) ELSE Err("invalid type")

(* The result of a struct variant from the results of its fields: the      *)
(* members of the document are read in the order the Map holds them, and   *)
(* the first that fails is the error; a field without a member is missing  *)
(* unless it is an Option, and the first such in the order of declaration  *)
(* is the error when every member was read.  A member that is no field of  *)
(* the variant is ignored.                                                 *)
struct_result(variant, present, fields) ==
    LET read == Among(SortedFieldNames, Len(SortedFieldNames),
                      present \cap DOMAIN fields)
        failed == first_failure([i \in 1..Len(read) |-> fields[read[i]]], 1)
        order == VariantOrder[variant]
        missing == first_failure([i \in 1..Len(order) |-> fields[order[i]]], 1)
    IN  IF failed.tag = "Some" THEN failed.val
        ELSE IF missing.tag = "Some" THEN missing.val
        ELSE Ok([k \in DOMAIN fields \cup {"variant"} |->
                    IF k = "variant" THEN variant ELSE fields[k].val])

(* #[derive(Deserialize)] on a serde_json::Value: the value of a type that *)
(* a document holds.  A missing Option field reads as None, a member that  *)
(* is no field of the variant is ignored.                                  *)
RECURSIVE deserialize(_, _)
deserialize(type, json) ==
    CASE type.t = "string" ->
             IF IsText(json) THEN Ok(json.text) ELSE Err("invalid type")
      [] type.t = "value" -> Value_deserialize(json)
      [] type.t = "bool" ->
             IF json.j = "bool" THEN Ok(json.b) ELSE Err("invalid type")
      [] type.t = "f32" -> f32_deserialize(json)
      [] type.t = "u8" -> u8_deserialize(json)
      [] type.t = "u32" -> u32_deserialize(json)
      [] type.t \in {"u64", "usize"} -> u64_deserialize(json)
      [] type.t = "bound_u64" ->
             LET inner == u64_deserialize(json)
             IN  IF inner.tag = "Ok" THEN Ok([u64 |-> inner.val]) ELSE inner
      [] type.t = "option" ->
             IF json = JNull THEN Ok(None)
             ELSE LET inner == deserialize(type.of, json)
                  IN  IF inner.tag = "Ok" THEN Ok(Some(inner.val)) ELSE inner
      [] type.t = "vec" ->
             IF json.j # "array" THEN Err("invalid type")
             ELSE LET items == [i \in 1..Len(json.items) |->
                                   deserialize(type.of, json.items[i])]
                      failed == first_failure(items, 1)
                  IN  IF failed.tag = "Some" THEN failed.val
                      ELSE Ok([i \in 1..Len(items) |-> items[i].val])
      [] type.t = "bound" ->
             IF IsName(json)
             THEN IF json.str = "Unbounded" THEN Ok(Unbounded)
                  ELSE IF json.str \in {"Included", "Excluded"}
                  THEN Err("invalid type")
                  ELSE Err("unknown variant")
             ELSE IF json.j # "object" THEN Err("invalid type")
             ELSE IF Cardinality(DOMAIN json.members) # 1
             THEN Err("invalid value")
             ELSE IF TagOf(json) = "Unbounded"
             THEN unit_content(json.members[TagOf(json)], Unbounded)
             ELSE IF TagOf(json) \in {"Included", "Excluded"}
             THEN LET inner == deserialize(type.of, json.members[TagOf(json)])
                  IN  IF inner.tag = "Ok"
                      THEN Ok([bound |-> TagOf(json), val |-> inner.val])
                      ELSE inner
             ELSE Err("unknown variant")
      [] type.t = "pair" ->
             IF json.j # "array" THEN Err("invalid type")
             ELSE IF Len(json.items) = 0 THEN Err("invalid length")
             ELSE IF ~IsText(json.items[1]) THEN Err("invalid type")
             ELSE IF Len(json.items) = 1 THEN Err("invalid length")
             ELSE LET value == Value_deserialize(json.items[2])
                  IN  IF value.tag # "Ok" THEN value
                      ELSE IF Len(json.items) > 2 THEN Err("invalid length")
                      ELSE Ok(<<json.items[1].text, value.val>>)
      [] type.t = "query" ->
             IF IsName(json)
             THEN IF json.str \in UnitVariants THEN Ok([variant |-> json.str])
                  ELSE IF json.str \in DOMAIN VariantFields
                  THEN Err("invalid type")
                  ELSE Err("unknown variant")
             ELSE IF json.j # "object" THEN Err("invalid type")
             ELSE IF Cardinality(DOMAIN json.members) # 1
             THEN Err("invalid value")
             ELSE IF TagOf(json) \in UnitVariants
             THEN unit_content(json.members[TagOf(json)],
                               [variant |-> TagOf(json)])
             ELSE IF TagOf(json) \notin DOMAIN VariantFields
             THEN Err("unknown variant")
             ELSE IF json.members[TagOf(json)].j # "object"
             THEN Err("invalid type")
             ELSE LET variant == TagOf(json)
                      content == json.members[variant].members
                      types == VariantFields[variant]
                      fields ==
                          [k \in DOMAIN types |->
                              IF k \in DOMAIN content
                              THEN deserialize(types[k], content[k])
                              ELSE IF types[k].t = "option" THEN Ok(None)
                              ELSE Err("missing field")]
                  IN  struct_result(variant, DOMAIN content, fields)

(* serde_json::to_value(&query) *)
SearchQueryInput_serialize(query) == serialize(T_Query, query)

(* serde_json::from_value::<SearchQueryInput>(json) *)
SearchQueryInput_deserialize(json) == deserialize(T_Query, json)

----------------------------------------------------------------------------
(* Inputs of the build.                                                    *)

Decl(name, config, type_) == [name |-> name, config |-> config, type_ |-> type_]

Configs == {default_text, default_json, default_numeric, default_boolean,
            default_date, Ctid}

CommonDecls ==
    {Decl("id", default_numeric, "I64"),
     Decl("body", default_text, "Text"),
     Decl("ctid", Ctid, "U64")}

SeqsUpTo(S, n) == UNION {[1..k -> S] : k \in 0..n}

(* Every list of at most MaxFields common declarations (repetitions       *)
(* included), and every configuration paired with every logical type in a *)
(* declaration "x" placed before the ctid declaration, and the list of an  *)
(* integer key, a Date field and the ctid field.                           *)
DeclLists ==
    SeqsUpTo(CommonDecls, MaxFields)
    \cup {<<Decl("x", c, t), Decl("ctid", Ctid, "U64")>> :
             c \in Configs, t \in SearchFieldType}
    \cup {<<Decl("id", default_numeric, "I64"),
            Decl("x", default_date, "Date"),
            Decl("ctid", Ctid, "U64")>>}

FieldNames == {"id", "body", "ctid", "x", "missing"}

----------------------------------------------------------------------------
(* Inputs of the compilation.                                              *)

MaxTerms == 2

Shoes == <<"s", "h", "o", "e", "s">>

Shoe == <<"s", "h", "o", "e">>

(* "2024-07-10T12:00:00Z" *)
DateSeconds ==
    <<"2", "0", "2", "4", "-", "0", "7", "-", "1", "0", "T",
      "1", "2", ":", "0", "0", ":", "0", "0", "Z">>

(* "2024-07-10T12:00:00.5Z" *)
DateFraction ==
    <<"2", "0", "2", "4", "-", "0", "7", "-", "1", "0", "T",
      "1", "2", ":", "0", "0", ":", "0", "0", ".", "5", "Z">>

(* "not-a-date" *)
NotADate == <<"n", "o", "t", "-", "a", "-", "d", "a", "t", "e">>

(* "2024- 07-10T12:00:00Z" *)
DateSpaced ==
    <<"2", "0", "2", "4", "-", " ", "0", "7", "-", "1", "0", "T",
      "1", "2", ":", "0", "0", ":", "0", "0", "Z">>

(* "+2024-07-10T12:00:00Z" *)
DateSigned ==
    <<"+", "2", "0", "2", "4", "-", "0", "7", "-", "1", "0", "T",
      "1", "2", ":", "0", "0", ":", "0", "0", "Z">>

(* The one token of "shoes". *)
ShoesToken ==
    Token(<<0, 0, 0, 0>>, <<0, 0, 0, 5>>, <<0, 0, 0, 0>>, Shoes, <<0, 0, 0, 1>>)

Texts == {Shoes, DateSeconds, DateFraction, NotADate, DateSpaced, DateSigned}

Values ==
    {StrValue(t) : t \in Texts}
    \cup {U64Value(<<0, 0, 0, 5>>), U64Value(<<32768, 0, 0, 0>>),
          U64Value(<<32767, 65535, 65535, 65535>>),
          U64Value(<<65535, 65535, 65535, 65534>>),
          I64Value(<<65535, 65535, 65535, 65535>>),
          F64Value(OneAndHalf), BoolValue(TRUE), DateValue(19914, 43200, 0),
          FacetValue(<<<<"a">>, <<"b">>>>), BytesValue(<<1, 2>>),
          JsonObjectValue([a |-> JBool(TRUE)]),
          IpAddrValue(<<0, 0, 0, 0, 0, 0, 0, 1>>),
          PreTokStrValue(Shoes, <<ShoesToken>>)}

TermQueries ==
    {Term(Some(f), v) : f \in FieldNames, v \in Values}
    \cup {Term(None, v) : v \in Values}

Pairs ==
    {<<"body", StrValue(Shoes)>>, <<"id", StrValue(Shoes)>>,
     <<"id", U64Value(<<0, 0, 0, 5>>)>>, <<"missing", StrValue(Shoes)>>,
     <<"x", StrValue(NotADate)>>, <<"x", StrValue(DateSeconds)>>,
     <<"body", U64Value(<<0, 0, 0, 5>>)>>}

TermSetQueries == {TermSet(ps) : ps \in SeqsUpTo(Pairs, MaxTerms)}

FuzzyTermQueries ==
    {FuzzyTerm(f, Shoe, d, t, p) :
        f \in {"body", "id", "missing"},
        d \in {None, Some(2)},
        t \in {None, Some(TRUE)},
        p \in {None, Some(TRUE), Some(FALSE)}}

(* The bounds of a Range: none, or one of the three timestamp strings,    *)
(* included or excluded.                                                   *)
StringBounds ==
    {Unbounded}
    \cup {Included(StrValue(t)) : t \in {DateSeconds, DateFraction, NotADate}}
    \cup {Excluded(StrValue(t)) : t \in {DateSeconds, DateFraction, NotADate}}

RangeQueries ==
    {Range("x", l, u) : l \in StringBounds, u \in StringBounds}
    \cup {Range(f, Included(U64Value(<<0, 0, 0, 5>>)), Unbounded) :
              f \in {"id", "body", "missing"}}
    \cup {Range("id", Excluded(I64Value(<<65535, 65535, 65535, 65535>>)),
                 Included(JsonObjectValue([a |-> JBool(TRUE)]))),
          Range("body", Unbounded, Excluded(StrValue(Shoes)))}

MaxPhrases == 2

PhraseLists == SeqsUpTo({Shoes, Shoe}, MaxPhrases)

PhraseQueries ==
    {Phrase(f, ps, slop) :
        f \in {"body", "id", "missing"}, ps \in PhraseLists,
        slop \in {None, Some(<<0, 2>>)}}

PhrasePrefixQueries ==
    {PhrasePrefix(f, ps, max_expansions) :
        f \in {"body", "id", "missing"}, ps \in PhraseLists,
        max_expansions \in {None, Some(<<0, 10>>)}}

(* "sho.*" and "(sho" *)
Patterns == {<<"s", "h", "o", ".", "*">>, <<"(", "s", "h", "o">>}

RegexQueries ==
    {Regex(f, pattern) : f \in {"body", "id", "missing"}, pattern \in Patterns}

(* Bound<u64>: the bare integer of a bound is held as [u64 |-> limbs]. *)
U64Bounds ==
    {Unbounded, Included([u64 |-> <<0, 0, 0, 5>>]),
     Excluded([u64 |-> <<32768, 0, 0, 0>>])}

FastFieldRangeWeightQueries ==
    {FastFieldRangeWeight(f, l, u) :
        f \in FieldNames, l \in U64Bounds, u \in U64Bounds}

NoKnobs ==
    [min_doc_frequency |-> None, max_doc_frequency |-> None,
     min_term_frequency |-> None, max_query_terms |-> None,
     min_word_length |-> None, max_word_length |-> None,
     boost_factor |-> None, stop_words |-> None]

SomeKnobs ==
    [min_doc_frequency |-> Some(<<0, 0, 0, 5>>), max_doc_frequency |-> None,
     min_term_frequency |-> Some(<<0, 0, 0, 2>>), max_query_terms |-> None,
     min_word_length |-> None, max_word_length |-> Some(<<0, 0, 0, 10>>),
     boost_factor |-> Some(OneAndHalf), stop_words |-> Some(<<Shoe>>)]

MltPairs ==
    {<<"body", StrValue(Shoes)>>, <<"body", StrValue(Shoe)>>,
     <<"id", I64Value(<<65535, 65535, 65535, 65535>>)>>,
     <<"id", U64Value(<<0, 0, 0, 5>>)>>, <<"id", StrValue(Shoes)>>,
     <<"missing", StrValue(Shoes)>>, <<"x", JsonObjectValue([a |-> JBool(TRUE)])>>,
     <<"x", StrValue(DateSeconds)>>}

MoreLikeThisQueries ==
    {MoreLikeThis(NoKnobs, fs) : fs \in SeqsUpTo(MltPairs, MaxTerms)}
    \cup {MoreLikeThis(SomeKnobs, <<p>>) : p \in MltPairs}

MaxClauses == 2

(* "body:shoes" *)
BodyShoes == <<"body", ":", "shoes">>

(* The sub-queries of the composite variants: two that compile on the     *)
(* schema of id, body and ctid, one that needs the parser, and one that    *)
(* names an absent field.                                                  *)
SubQueries ==
    {Term(Some("body"), StrValue(Shoes)), Term(Some("missing"), StrValue(Shoes)),
     Parse(BodyShoes), Parse(<<"body", ":">>), Boost(Empty, Two)}

BooleanQueries ==
    {Boolean(must, should, must_not) :
        <<must, should, must_not>> \in
            {lists \in SeqsUpTo(SubQueries, MaxClauses)
                       \X SeqsUpTo(SubQueries, MaxClauses)
                       \X SeqsUpTo(SubQueries, MaxClauses) :
                Len(lists[1]) + Len(lists[2]) + Len(lists[3]) <= MaxClauses}}

BoostQueries == {Boost(q, Two) : q \in SubQueries}

ConstScoreQueries == {ConstScore(q, One) : q \in SubQueries}

DisjunctionMaxQueries ==
    {DisjunctionMax(ds, tie_breaker) :
        ds \in SeqsUpTo(SubQueries, MaxClauses),
        tie_breaker \in {None, Some(Half)}}

(* "body:shoes", "shoes", "missing:shoes" and "body:" *)
ParseQueries ==
    {Parse(BodyShoes), Parse(<<"shoes">>), Parse(<<"missing", ":", "shoes">>),
     Parse(<<"body", ":">>)}

(* The compiled inputs, one set per variant. *)
QuerySets ==
    <<{All}, {Empty}, TermQueries, TermSetQueries, FuzzyTermQueries,
      RangeQueries, FastFieldRangeWeightQueries, PhraseQueries,
      PhrasePrefixQueries, RegexQueries, MoreLikeThisQueries,
      BooleanQueries, BoostQueries, ConstScoreQueries, DisjunctionMaxQueries,
      ParseQueries>>

----------------------------------------------------------------------------
(* Inputs of the wire form: literals of every kind (a string, both         *)
(* integers, an i64 on each side of zero, a float, the float that is no    *)
(* number, a boolean, a date with and without a fraction, a facet, bytes,  *)
(* a JSON object, an address and a pre-tokenized string),                  *)
(* every variant, the three shapes of a bound, composites nested three     *)
(* deep, an infinite boost, a slop above 16 bits, and the boost and the     *)
(* literal nearest to a tenth.                                             *)

WireValues ==
    {StrValue(Shoes), U64Value(<<0, 0, 0, 5>>), U64Value(<<32768, 0, 0, 0>>),
     I64Value(<<65535, 65535, 65535, 65535>>), I64Value(<<0, 0, 0, 5>>),
     F64Value(OneAndHalf), F64Value(NaN), BoolValue(TRUE),
     DateValue(19914, 43200, 0), DateValue(19914, 43200, 500000),
     FacetValue(<<<<"a">>, <<"b">>>>), BytesValue(<<1, 2>>),
     JsonObjectValue([a |-> JBool(TRUE)]),
     IpAddrValue(<<8193, 3512, 0, 0, 0, 0, 0, 1>>),
     IpAddrValue(<<0, 0, 0, 0, 0, 65535, 49320, 257>>),
     PreTokStrValue(Shoes, <<ShoesToken>>)}

WireBounds ==
    {Unbounded} \cup {Included(v) : v \in WireValues}
    \cup {Excluded(v) : v \in WireValues}

WireTerms == {Term(f, v) : f \in {Some("body"), None}, v \in WireValues}

WireNested ==
    {Boolean(<<q>>, <<Boost(Parse(BodyShoes), Two)>>,
             <<DisjunctionMax(<<ConstScore(q, One), All>>, Some(Half))>>) :
        q \in WireTerms}
    \cup {Boolean(<<>>, <<>>, <<>>)}

WireQuerySets ==
    <<{All, Empty}, WireTerms,
      {TermSet(ps) : ps \in SeqsUpTo({<<"id", v>> : v \in WireValues}, 1)},
      {Range("x", l, u) : l \in WireBounds, u \in WireBounds},
      FastFieldRangeWeightQueries, FuzzyTermQueries, PhraseQueries,
      PhrasePrefixQueries, RegexQueries,
      {MoreLikeThis(SomeKnobs, <<<<"body", v>>>>) : v \in WireValues}
          \cup {MoreLikeThis(NoKnobs, <<>>)},
      ParseQueries, WireNested,
      {DisjunctionMax(<<q>>, None) : q \in WireNested},
      {Boost(All, Infinity(0))}, {Phrase("body", <<>>, Some(<<1, 0>>))},
      {Boost(All, TenthF32), Term(None, F64Value(Tenth))}>>

----------------------------------------------------------------------------
(* Inputs of the type inference: the built-in types the source names,      *)
(* built-in types it does not name, two custom types and the invalid oid.  *)

NamedBuiltIns ==
    {"TEXTOID", "VARCHAROID", "UUIDOID", "INT2OID", "INT4OID", "INT8OID",
     "OIDOID", "XIDOID", "FLOAT4OID", "FLOAT8OID", "NUMERICOID", "BOOLOID",
     "JSONOID", "JSONBOID", "DATEOID", "TIMESTAMPOID", "TIMESTAMPTZOID",
     "TIMEOID", "TIMETZOID"}

OtherBuiltIns ==
    {"BYTEAOID", "BPCHAROID", "NAMEOID", "CHAROID", "INTERVALOID", "MONEYOID",
     "INETOID", "POINTOID", "INT4ARRAYOID", "TEXTARRAYOID", "CIDOID",
     "TIDOID"}

PgOids ==
    {BuiltIn(b) : b \in NamedBuiltIns \cup OtherBuiltIns}
    \cup {Custom(16384), Custom(16385), Invalid}

----------------------------------------------------------------------------
(* Inputs of the configuration parsers.                                    *)

Families == {"Text", "Json", "Numeric", "Boolean", "Date"}

BoolKeys == {"indexed", "fast", "stored", "fieldnorms", "expand_dots"}

(* The keys tried for a family: its recognised keys and one key that is    *)
(* not recognised.                                                         *)
TriedKeys(family) ==
    CASE family = "Text" ->
             <<"indexed", "fast", "stored", "fieldnorms", "tokenizer",
               "record", "normalizer", "bogus">>
      [] family = "Json" ->
             <<"indexed", "fast", "stored", "expand_dots", "tokenizer",
               "record", "normalizer", "bogus">>
      [] OTHER -> <<"indexed", "fast", "stored", "bogus">>

(* The values tried for a key: for a boolean key both booleans and a       *)
(* number; for the tokenizer the object that gives its type, the name of   *)
(* its variant, and an object whose type names no tokenizer.               *)
TriedValues(key) ==
    CASE key \in BoolKeys -> {JBool(TRUE), JBool(FALSE), JNumber(1)}
      [] key = "tokenizer" ->
             {JObject([type |-> JString("raw")]), JString("Raw"),
              JObject([type |-> JString("bogus")])}
      [] key = "record" -> {JString("basic")}
      [] key = "normalizer" -> {JString("lowercase")}
      [] OTHER -> {JBool(TRUE)}

(* The members of every object over the first n of the keys: each key is   *)
(* absent or holds one of its values.                                      *)
WithKey(rest, key) ==
    rest \cup {(key :> v) @@ o : v \in TriedValues(key), o \in rest}

RECURSIVE MembersOver(_, _)
MembersOver(keys, n) ==
    IF n = 0 THEN {<<>>} ELSE WithKey(MembersOver(keys, n - 1), keys[n])

NonObjects == {JNull, JBool(TRUE), JNumber(1), JString("Text")}

ConfigValues(family) ==
    {JObject(m) : m \in MembersOver(TriedKeys(family), Len(TriedKeys(family)))}
    \cup NonObjects

TaggedOf(family) == {Tagged(family, v) : v \in ConfigValues(family)}

TaggedValues ==
    TaggedOf("Text") \cup TaggedOf("Json") \cup TaggedOf("Numeric")
    \cup TaggedOf("Boolean") \cup TaggedOf("Date")
    \cup {JString("Ctid"), JString("Text"), Tagged("Ctid", JNull),
          Tagged("Bogus", JObject(<<>>))}

----------------------------------------------------------------------------
(* The state machine.                                                      *)

NoArgs == [tag |-> "None"]

NoCall == [op |-> "none"]

(* A thread that is in no call. *)
Idle == [pc |-> "idle"]

MaxThreads == 2

Threads == 1..MaxThreads

Init ==
    /\ args = NoArgs
    /\ build = None
    /\ schema = None
    /\ call = NoCall
    /\ ret = None
    /\ threads = [t \in Threads |-> Idle]

(* The declaration of an index reads the configuration of a field with    *)
(* the parser of its family: text_from_json(value), ..                     *)
ParseConfig ==
    /\ build = None
    /\ call = NoCall
    /\ \E family \in Families : \E value \in ConfigValues(family) :
          /\ call' = [op |-> "family_from_json", family |-> family,
                      value |-> value]
          /\ ret' = family_from_json(family, value)
    /\ UNCHANGED <<args, build, schema, threads>>

(* SearchFieldConfig::from_json(value) *)
DecodeConfig ==
    /\ build = None
    /\ call = NoCall
    /\ \E value \in TaggedValues :
          /\ call' = [op |-> "from_json", value |-> value]
          /\ ret' = from_json(value)
    /\ UNCHANGED <<args, build, schema, threads>>

(* serde_json::to_value(&config) of the configuration just decoded: the  *)
(* call keeps the document the configuration was decoded from.             *)
EncodeConfig ==
    /\ call.op = "from_json"
    /\ ret.tag = "Ok"
    /\ call' = [op |-> "to_value", config |-> ret.val, source |-> call.value]
    /\ ret' = Ok(SearchFieldConfig_serialize(ret.val))
    /\ UNCHANGED <<args, build, schema, threads>>

(* A caller writes a query input: serde_json::to_value(&query).           *)
Encode ==
    /\ build = None
    /\ call = NoCall
    /\ \E k \in 1..Len(WireQuerySets) : \E q \in WireQuerySets[k] :
          /\ call' = [op |-> "encode", input |-> q]
          /\ ret' = SearchQueryInput_serialize(q)
    /\ UNCHANGED <<args, build, schema, threads>>

(* The document just written is read back: serde_json::from_value(json).  *)
(* The call keeps the input the document was written from.                 *)
Decode ==
    /\ call.op = "encode"
    /\ ret.tag = "Ok"
    /\ call' = [op |-> "decode", input |-> call.input, json |-> ret.val]
    /\ ret' = SearchQueryInput_deserialize(ret.val)
    /\ UNCHANGED <<args, build, schema, threads>>

(* The declaration of an index infers the type of a column:               *)
(* SearchFieldType::try_from(&pg_oid).                                      *)
InferType ==
    /\ build = None
    /\ call = NoCall
    /\ \E pg_oid \in PgOids :
          /\ call' = [op |-> "try_from", pg_oid |-> pg_oid]
          /\ ret' = try_from(pg_oid)
    /\ UNCHANGED <<args, build, schema, threads>>

(* SearchIndexSchema::new(fields, key_index) *)
Build ==
    /\ build = None
    /\ call = NoCall
    /\ \E fields \in DeclLists, key_index \in 0..MaxKey :
          LET r == SearchIndexSchema_new(fields, key_index)
          IN  /\ args' = [tag |-> "Some", fields |-> fields,
                          key_index |-> key_index]
              /\ build' = r
              /\ schema' = IF r.tag = "Ok" THEN Some(r.val) ELSE None
    /\ UNCHANGED <<call, ret, threads>>

(* The index is written to disk and read back (SearchIndex::from_disk).    *)
Reload ==
    /\ schema.tag = "Some"
    /\ call = NoCall
    /\ schema' = Some(Deserialize(Serialize(schema.val)))
    /\ UNCHANGED <<args, build, call, ret, threads>>

(* resolve: as_field_type(name) *)
Resolve ==
    /\ schema.tag = "Some"
    /\ call = NoCall
    /\ \E name \in FieldNames :
          /\ call' = [op |-> "resolve", name |-> name]
          /\ ret' = as_field_type(schema.val, name)
    /\ UNCHANGED <<args, build, schema, threads>>

(* The call of a compilation and what it returned: the call keeps the      *)
(* parser as the compilation left it (the query strings it was given, in   *)
(* order).                                                                 *)
Returned(q, compiled) ==
    /\ call' = [op |-> "compile", input |-> q, parser |-> compiled.parser]
    /\ ret' = compiled.res

(* compile: query.into_tantivy_query(&schema, &mut parser), the parser   *)
(* fresh.                                                                  *)
Compile ==
    /\ schema.tag = "Some"
    /\ call = NoCall
    /\ \E k \in 1..Len(QuerySets) : \E q \in QuerySets[k] :
          Returned(q, into_tantivy_query(q, schema.val, <<>>))
    /\ UNCHANGED <<args, build, schema, threads>>

(* schema.new_document(), which takes key_field() and ctid_field() *)
NewDocument ==
    /\ schema.tag = "Some"
    /\ call = NoCall
    /\ call' = [op |-> "new_document"]
    /\ ret' = new_document(schema.val)
    /\ UNCHANGED <<args, build, schema, threads>>

(* The caller takes the result: the compiled query is handed to the       *)
(* engine (or the error raised) and the next call can be made.             *)
Return ==
    /\ call # NoCall
    /\ call' = NoCall
    /\ ret' = None
    /\ UNCHANGED <<args, build, schema, threads>>

Next ==
    \/ InferType \/ ParseConfig \/ DecodeConfig \/ EncodeConfig
    \/ Encode \/ Decode \/ Build \/ Reload \/ Resolve
    \/ NewDocument \/ Compile \/ Return

Spec == Init /\ [][Next]_vars

----------------------------------------------------------------------------
(* Several threads on one shared schema.  The schema was built, or built,  *)
(* written to disk and read back (no cache), and handed out; each thread   *)
(* calls resolve, field iteration and compile on it, every call through    *)
(* &self.  get_search_field takes two steps, the read of self.lookup and   *)
(* the look-up itself, so that the calls of the threads interleave.        *)

(* The declarations of the shared schema. *)
SharedDecls ==
    {<<Decl("id", default_numeric, "I64"), Decl("body", default_text, "Text"),
       Decl("ctid", Ctid, "U64")>>,
     <<Decl("ctid", Ctid, "U64"), Decl("body", default_text, "Text")>>}

SharedNames == {"body", "missing"}

SharedQueries ==
    {Term(Some("body"), StrValue(Shoes)), Term(None, StrValue(Shoes)),
     Term(Some("missing"), StrValue(Shoes))}

InitThreads ==
    /\ \E fields \in SharedDecls :
          LET r == SearchIndexSchema_new(fields, 0)
          IN  /\ r.tag = "Ok"
              /\ args = [tag |-> "Some", fields |-> fields, key_index |-> 0]
              /\ build = r
              /\ schema \in {Some(r.val), Some(Deserialize(Serialize(r.val)))}
    /\ call = NoCall
    /\ ret = None
    /\ threads = [t \in Threads |-> Idle]

(* get_search_field that keeps the lookup it built in self.lookup. *)
after_get_search_field_caching(self) ==
    IF self.lookup.tag = "Some" THEN self
    ELSE [self EXCEPT !.lookup = Some(build_lookup(self.fields))]

(* The schema after get_search_field(&self, name): the lookup built when   *)
(* self.lookup is None is a local that is dropped on return.               *)
after_get_search_field(self) == self

(* What the thread sees: the lookup it read, and the fields. *)
View(self, local) == [self EXCEPT !.lookup = local]

(* as_field_type(from): get_search_field is entered. *)
CallResolve(t) ==
    /\ threads[t].pc = "idle"
    /\ \E name \in SharedNames :
          threads' = [threads EXCEPT ![t] =
                         [pc |-> "get_search_field", op |-> "resolve",
                          name |-> name]]
    /\ UNCHANGED <<args, build, schema, call, ret>>

(* if let Some(lookup) = &self.lookup *)
ReadLookup(t) ==
    /\ threads[t].pc = "get_search_field"
    /\ threads' = [threads EXCEPT ![t] =
                       [pc |-> "lookup_get", op |-> "resolve",
                        name |-> threads[t].name, local |-> schema.val.lookup]]
    /\ UNCHANGED <<args, build, schema, call, ret>>

(* lookup.get(name).and_then(|idx| self.fields.get(idx)), on the lookup   *)
(* read or on one built from self.fields, and the map of as_field_type.    *)
LookupGet(t) ==
    /\ threads[t].pc = "lookup_get"
    /\ threads' = [threads EXCEPT ![t] =
                       [pc |-> "done", op |-> "resolve",
                        name |-> threads[t].name,
                        result |-> as_field_type(View(schema.val, threads[t].local),
                                                 threads[t].name)]]
    /\ schema' = Some(after_get_search_field(schema.val))
    /\ UNCHANGED <<args, build, call, ret>>

(* fields() *)
CallFields(t) ==
    /\ threads[t].pc = "idle"
    /\ threads' = [threads EXCEPT ![t] =
                       [pc |-> "done", op |-> "fields",
                        result |-> schema_fields(schema.val)]]
    /\ UNCHANGED <<args, build, schema, call, ret>>

(* query.into_tantivy_query(&schema, &mut parser), the parser the thread's *)
(* own.                                                                    *)
CallCompile(t) ==
    /\ threads[t].pc = "idle"
    /\ \E q \in SharedQueries :
          threads' = [threads EXCEPT ![t] =
                         [pc |-> "done", op |-> "compile", input |-> q,
                          result |-> into_tantivy_query(q, schema.val, <<>>).res]]
    /\ UNCHANGED <<args, build, schema, call, ret>>

(* The thread takes the result. *)
ThreadReturn(t) ==
    /\ threads[t].pc = "done"
    /\ threads' = [threads EXCEPT ![t] = Idle]
    /\ UNCHANGED <<args, build, schema, call, ret>>

NextThreads ==
    \E t \in Threads :
        \/ CallResolve(t) \/ ReadLookup(t) \/ LookupGet(t)
        \/ CallFields(t) \/ CallCompile(t) \/ ThreadReturn(t)

SpecThreads == InitThreads /\ [][NextThreads]_vars

----------------------------------------------------------------------------
(* Vocabulary of the properties.                                           *)

Built == args.tag = "Some" /\ build.tag = "Ok"

Compiling(variant) == call.op = "compile" /\ call.input.variant = variant

(* resolve(f) on the schema the call was made on. *)
Resolved(f) == as_field_type(schema.val, f)

IsNumericText(text) ==
    Len(text) > 0 /\ \A i \in 1..Len(text) : IsDigit(text[i])

ParsesAsTimestamp(text) ==
    \/ parse_from_str(text, SecondsPattern).tag = "Ok"
    \/ parse_from_str(text, FractionPattern).tag = "Ok"

(* A literal's runtime type is compatible with a field's physical type:   *)
(* the same type, an unsigned literal on a signed field, or a timestamp   *)
(* string on a date field.                                                *)
Accepts(field_type, value) ==
    \/ field_type = "Str" /\ value.kind = "Str"
    \/ field_type = "U64" /\ value.kind = "U64"
    \/ field_type = "I64" /\ value.kind \in {"I64", "U64"}
    \/ field_type = "F64" /\ value.kind = "F64"
    \/ field_type = "Bool" /\ value.kind = "Bool"
    \/ field_type = "Date" /\ value.kind = "Date"
    \/ field_type = "Date" /\ value.kind = "Str" /\ ParsesAsTimestamp(value.text)
    \/ field_type = "JsonObject" /\ value.kind = "JsonObject"

(* Literals that must never reach term encoding are outside C1 and C2. *)
Encodable(value) == value.kind \notin {"JsonObject", "PreTokStr"}

FieldError(r) ==
    r.tag = "Err" /\ r.err.kind \in {"WrongFieldType", "NonIndexedField"}

----------------------------------------------------------------------------
(* C1: compiling Term{field: Some(f), value: V} fails with WrongFieldType  *)
(* or NonIndexedField if and only if f is absent from the schema or V's    *)
(* runtime type is incompatible with f's type; otherwise it succeeds and   *)
(* the term is bound to the field id resolve(f) returns.                   *)
C1_QualifiedTermFailsIffIncompatible ==
    (/\ Compiling("Term")
     /\ call.input.field.tag = "Some"
     /\ Encodable(call.input.value))
    => LET f == call.input.field.val
           r == Resolved(f)
           bad == r.tag = "None" \/ ~Accepts(r.val.field_type, call.input.value)
       IN  /\ bad <=> FieldError(ret)
           /\ ~bad => /\ ret.tag = "Ok"
                      /\ ret.val.q = "TermQuery"
                      /\ ret.val.term.field = r.val.field

(* C2: compiling Term{field: None, value: V} never fails because of a      *)
(* field that does not accept V: it returns a set-membership query with    *)
(* as many terms as the schema has fields whose type accepts V.            *)
C2_UnqualifiedTermCountsAcceptingFields ==
    (/\ Compiling("Term")
     /\ call.input.field.tag = "None"
     /\ Encodable(call.input.value))
    => LET all == schema_fields(schema.val)
           accepting == {i \in 1..Len(all) :
                            Accepts(all[i].field_type, call.input.value)}
       IN  /\ ret.tag = "Ok"
           /\ ret.val.q = "TermSetQuery"
           /\ Len(ret.val.terms) = Cardinality(accepting)

(* The pairs of a TermSet, each compiled alone as a qualified Term. *)
Alone(pairs) ==
    [i \in 1..Len(pairs) |->
        compile_term_qualified(pairs[i][1], pairs[i][2], schema.val)]

(* C3: compiling TermSet fails as a whole, with the failure of the first   *)
(* pair that fails when compiled alone as a qualified Term, and returns no *)
(* query; it succeeds only when every pair succeeds alone, and then holds  *)
(* one term per pair: the term of that pair, in the order of the pairs.    *)
C3_TermSetAllOrNothing ==
    Compiling("TermSet")
    => LET pairs == call.input.terms
           alone == Alone(pairs)
           failing == {i \in 1..Len(pairs) : alone[i].tag # "Ok"}
       IN  /\ failing # {} =>
                 /\ ret.tag # "Ok"
                 /\ ret = alone[CHOOSE i \in failing : \A j \in failing : i <= j]
           /\ failing = {} =>
                 /\ ret.tag = "Ok"
                 /\ ret.val.q = "TermSetQuery"
                 /\ Len(ret.val.terms) = Len(pairs)
                 /\ \A i \in 1..Len(pairs) : ret.val.terms[i] = alone[i].val.term

(* A TermSet of two pairs whose first pair compiles alone and whose second *)
(* does not: the compilation returned that pair's error.                   *)
C3_Witness ==
    /\ Compiling("TermSet")
    /\ Len(call.input.terms) = 2
    /\ Alone(call.input.terms)[1].tag = "Ok"
    /\ Alone(call.input.terms)[2].tag = "Err"
    /\ ret.tag = "Err"

(* A pair that names a signed-integer field with a string that is no number. *)
IntegerStringPair(pair) ==
    /\ Resolved(pair[1]).tag = "Some"
    /\ Resolved(pair[1]).val.field_type = "I64"
    /\ pair[2].kind = "Str"
    /\ ~IsNumericText(pair[2].text)

(* C4: a TermSet that contains a pair of an Integer field and a non-numeric *)
(* string (its other pairs being accepted) fails with NonIndexedField or    *)
(* WrongFieldType naming that field, and returns no query.                  *)
C4_TermSetRejectsStringOnInteger ==
    LET pairs == call.input.terms
        offending == {i \in 1..Len(pairs) : IntegerStringPair(pairs[i])}
    IN  (/\ Compiling("TermSet")
         /\ offending # {}
         /\ \A i \in (1..Len(pairs)) \ offending :
                /\ Resolved(pairs[i][1]).tag = "Some"
                /\ Accepts(Resolved(pairs[i][1]).val.field_type, pairs[i][2]))
        => /\ FieldError(ret)
           /\ \E i \in offending : ret.err.field = pairs[i][1]

(* C5: FuzzyTerm on a Text field gives a prefix-match query when prefix is *)
(* Some(true) and a whole-term query when it is absent or Some(false); an  *)
(* absent distance is 1 and an absent transposition-cost flag is false.    *)
C5_FuzzyTermPrefixAndDefaults ==
    (/\ Compiling("FuzzyTerm")
     /\ Resolved(call.input.field).tag = "Some"
     /\ Resolved(call.input.field).val.field_type = "Str")
    => /\ ret.tag = "Ok"
       /\ ret.val.q = "FuzzyTermQuery"
       /\ ret.val.prefix = (call.input.prefix = Some(TRUE))
       /\ ret.val.distance =
             (IF call.input.distance.tag = "Some"
              THEN call.input.distance.val ELSE 1)
       /\ ret.val.transposition_cost_one =
             (IF call.input.tranposition_cost_one.tag = "Some"
              THEN call.input.tranposition_cost_one.val ELSE FALSE)

----------------------------------------------------------------------------
(* Properties of the build.                                                *)

Declarations == args.fields

HasCtidDeclaration ==
    \E i \in 1..Len(Declarations) : Declarations[i].config = Ctid

HasDuplicateNames ==
    \E i, j \in 1..Len(Declarations) :
        i < j /\ Declarations[i].name = Declarations[j].name

(* The physical type a declaration asks for. *)
PhysicalType(decl) ==
    IF decl.config.family = "Ctid" THEN "U64"
    ELSE CASE decl.type_ = "Text" -> "Str"
           [] decl.type_ = "Json" -> "JsonObject"
           [] OTHER -> decl.type_

(* C6: a build from a declaration list (here: a non-empty one) with no     *)
(* Ctid-configured field is rejected: it returns no schema.                *)
C6_BuildWithoutCtidRejected ==
    (args.tag = "Some" /\ Len(Declarations) >= 1 /\ ~HasCtidDeclaration)
    => build.tag # "Ok" /\ schema.tag = "None"

(* C7: in every schema the build returns (here: from a list that declares  *)
(* a ctid field), whatever key position the caller passed, the key index   *)
(* and the ctid index are positions of the field sequence, so key_field,   *)
(* ctid_field and new_document do not fail.                                *)
C7_BuiltIndicesValid ==
    (args.tag = "Some" /\ HasCtidDeclaration)
    =>
    /\ Built =>
          /\ build.val.key \in 0..(Len(build.val.fields) - 1)
          /\ build.val.ctid \in 0..(Len(build.val.fields) - 1)
          /\ key_field(build.val).tag = "Ok"
          /\ ctid_field(build.val).tag = "Ok"
    /\ call.op = "new_document" => ret.tag = "Ok"

(* C8: resolve(name) returns the same on the freshly built schema, whose   *)
(* name->position cache is populated, and on the schema read back from its *)
(* serialised form, which has no cache.                                    *)
C8_ResolveSameWithAndWithoutCache ==
    call.op = "resolve"
    => LET fresh == build.val
           reloaded == Deserialize(Serialize(build.val))
       IN  /\ fresh.lookup.tag = "Some"
           /\ reloaded.lookup.tag = "None"
           /\ ret = as_field_type(fresh, call.name)
           /\ ret = as_field_type(reloaded, call.name)

(* A resolve that found its field on a reloaded schema (no cache). *)
C8_Witness ==
    /\ call.op = "resolve"
    /\ schema.val.lookup.tag = "None"
    /\ build.val.lookup.tag = "Some"
    /\ ret.tag = "Some"

(* C9: on a built schema (its names are distinct) resolve(n) returns, for  *)
(* a declared n, the physical type and the id the declaration named n was  *)
(* registered with (Str for a Text configuration of logical type Text),    *)
(* and not-found for a name that was not declared.                         *)
C9_ResolveReturnsRegisteredField ==
    call.op = "resolve"
    => LET at == {i \in 1..Len(Declarations) :
                     Declarations[i].name = call.name}
       IN  /\ at = {} => ret = None
           /\ \A i \in at :
                 /\ ret = Some([field_type |-> PhysicalType(Declarations[i]),
                                field |-> i - 1])
                 /\ build.val.schema[i].name = call.name
                 /\ build.val.schema[i].field_type = ret.val.field_type
                 /\ (Declarations[i].config.family = "Text"
                     /\ Declarations[i].type_ = "Text")
                    => ret.val.field_type = "Str"

(* resolve("body") on the schema of id, body and ctid: Text, field 1. *)
C9_Witness ==
    /\ call.op = "resolve"
    /\ call.name = "body"
    /\ Len(Declarations) = 3
    /\ Declarations[1].name = "id"
    /\ ret = Some([field_type |-> "Str", field |-> 1])

(* C10: a build from a list in which two declarations carry the same name  *)
(* fails and returns no schema.                                            *)
C10_DuplicateNamesRejected ==
    (args.tag = "Some" /\ HasDuplicateNames)
    => build.tag # "Ok" /\ schema.tag = "None"

(* Two declarations of the same name, each acceptable alone: the second    *)
(* registration was rejected.                                              *)
C10_Witness ==
    /\ args.tag = "Some"
    /\ Len(Declarations) = 2
    /\ Declarations[1] = Declarations[2]
    /\ Declarations[1].name = "body"
    /\ build = Panic("Field already exists in schema")

----------------------------------------------------------------------------
(* Type families.                                                          *)

(* The configuration family of a logical type. *)
FamilyOf(type_) ==
    CASE type_ = "Text" -> "Text"
      [] type_ \in {"I64", "U64", "F64"} -> "Numeric"
      [] type_ = "Bool" -> "Boolean"
      [] type_ = "Json" -> "Json"
      [] type_ = "Date" -> "Date"

(* A declaration whose configuration is of another family than its type.  *)
Mispaired(decl) ==
    decl.config.family # "Ctid" /\ decl.config.family # FamilyOf(decl.type_)

(* C11: a build from a list with a declaration whose configuration variant *)
(* is not of the family of its logical type (Ctid excepted) ends fatally   *)
(* and returns no schema.                                                  *)
C11_MispairedDeclarationFatal ==
    (/\ args.tag = "Some"
     /\ \E i \in 1..Len(Declarations) : Mispaired(Declarations[i]))
    => build.tag = "Panic" /\ schema.tag = "None"

(* C12: in a built schema every Ctid-configured declaration is registered  *)
(* as a U64 field that is indexed, stored and fast, whatever its logical   *)
(* type, and resolve of its name returns the U64 physical type.            *)
C12_CtidRegisteredAsU64 ==
    Built
    => \A i \in 1..Len(Declarations) :
          Declarations[i].config = Ctid
          => /\ build.val.schema[i].name = Declarations[i].name
             /\ build.val.schema[i].field_type = "U64"
             /\ build.val.schema[i].options =
                    [stored |-> TRUE, fast |-> TRUE, indexed |-> TRUE]
             /\ (call.op = "resolve" /\ call.name = Declarations[i].name)
                => ret = Some([field_type |-> "U64", field |-> i - 1])

(* resolve("x") where x was declared with the Ctid configuration and the   *)
(* logical type Text: an unsigned 64-bit field.                            *)
C12_Witness ==
    /\ Built
    /\ Len(Declarations) >= 1
    /\ Declarations[1] = Decl("x", Ctid, "Text")
    /\ call.op = "resolve"
    /\ call.name = "x"
    /\ ret = Some([field_type |-> "U64", field |-> 0])

----------------------------------------------------------------------------
(* Range.                                                                  *)

(* The instant each of the two timestamp strings names: 2024-07-10 12:00   *)
(* UTC in seconds since the epoch, and the microseconds of the second.     *)
InstantOf(text) ==
    IF text = DateFraction
    THEN DateTime(19914, 43200, 500000)
    ELSE DateTime(19914, 43200, 0)

(* The bound of the compiled query that a string bound must become. *)
DateBound(bound, field) ==
    IF bound.bound = "Unbounded" THEN Unbounded
    ELSE [bound |-> bound.bound,
          val |-> [field |-> field, typ |-> "Date",
                   date |-> InstantOf(bound.val.text)]]

(* C13: Range on a Date field whose bounds are absent or strings succeeds  *)
(* when every string is "2024-07-10T12:00:00Z" (seconds pattern) or        *)
(* "2024-07-10T12:00:00.5Z" (fractional pattern, tried second), each bound *)
(* becoming the date term of its instant and staying included or excluded; *)
(* it fails with FieldTypeMismatch when a string is "not-a-date", as lower *)
(* or as upper bound, included or excluded.                                *)
C13_RangeDateStringBounds ==
    (/\ Compiling("Range")
     /\ Resolved(call.input.field).tag = "Some"
     /\ Resolved(call.input.field).val.field_type = "Date"
     /\ call.input.lower_bound \in StringBounds
     /\ call.input.upper_bound \in StringBounds)
    => LET lower == call.input.lower_bound
           upper == call.input.upper_bound
           field == Resolved(call.input.field).val.field
           bad == \E b \in {lower, upper} :
                     b.bound # "Unbounded" /\ b.val.text = NotADate
       IN  /\ bad => ret = Err(FieldTypeMismatch)
           /\ ~bad => /\ ret.tag = "Ok"
                      /\ ret.val.q = "RangeQuery"
                      /\ ret.val.field = call.input.field
                      /\ ret.val.value_type = "Date"
                      /\ ret.val.lower_bound = DateBound(lower, field)
                      /\ ret.val.upper_bound = DateBound(upper, field)

(* A Range on the Date field x from "2024-07-10T12:00:00Z" excluded to     *)
(* "2024-07-10T12:00:00.5Z" included compiled: the upper bound went        *)
(* through the fractional pattern.                                         *)
C13_Witness ==
    /\ Compiling("Range")
    /\ Resolved(call.input.field) = Some([field_type |-> "Date", field |-> 0])
    /\ call.input.lower_bound = Excluded(StrValue(DateSeconds))
    /\ call.input.upper_bound = Included(StrValue(DateFraction))
    /\ parse_from_str(DateFraction, SecondsPattern).tag = "Err"
    /\ ret.tag = "Ok"
    /\ ret.val.upper_bound.val.date.micros = 500000

----------------------------------------------------------------------------
(* Term encoding.                                                          *)

(* C14: the encoding of a literal for a resolved field aborts (panics)     *)
(* only when the literal is a JSON object or pre-tokenized text; for every *)
(* other literal on every field it yields a term or an error returned to   *)
(* the caller.                                                             *)
C14_EncodingAbortsOnlyForJsonAndPreTok ==
    (/\ Compiling("Term")
     /\ call.input.field.tag = "Some"
     /\ Resolved(call.input.field.val).tag = "Some")
    => LET ft == Resolved(call.input.field.val).val
           term == value_to_term(ft.field, call.input.value, ft.field_type)
       IN  /\ ret.tag = term.tag
           /\ term.tag \in {"Ok", "Err", "Panic"}
           /\ term.tag = "Panic"
              => call.input.value.kind \in {"JsonObject", "PreTokStr"}

----------------------------------------------------------------------------
(* FastFieldRangeWeight.                                                   *)

(* C15: compiling FastFieldRangeWeight succeeds if and only if the field   *)
(* resolves to the I64 or the U64 physical type, and then carries the      *)
(* field name and the two bounds as given; for a field of another type and *)
(* for an absent name it fails with WrongFieldType of that name, whatever  *)
(* the bounds.                                                             *)
C15_FastFieldRangeWeightIntegerOnly ==
    Compiling("FastFieldRangeWeight")
    => LET r == Resolved(call.input.field)
           integer == r.tag = "Some" /\ r.val.field_type \in {"I64", "U64"}
       IN  /\ integer <=> ret.tag = "Ok"
           /\ integer =>
                 ret.val = [q |-> "FastFieldRangeWeight",
                            field |-> call.input.field,
                            lower_bound |-> call.input.lower_bound,
                            upper_bound |-> call.input.upper_bound]
           /\ ~integer => ret = Err(WrongFieldType(call.input.field))

(* FastFieldRangeWeight on the signed field id of the schema of id, body   *)
(* and ctid compiled, with both bounds present.                            *)
C15_Witness ==
    /\ Compiling("FastFieldRangeWeight")
    /\ call.input.field = "id"
    /\ Resolved("id") = Some([field_type |-> "I64", field |-> 0])
    /\ call.input.lower_bound.bound = "Included"
    /\ call.input.upper_bound.bound = "Excluded"
    /\ ret.tag = "Ok"

----------------------------------------------------------------------------
(* The variants that take a Text field.                                    *)

(* C16: compiling FuzzyTerm, Phrase, PhrasePrefix or Regex on a name that  *)
(* does not resolve to a Str field (absent, or of another type) fails with *)
(* WrongFieldType of that name; on a Str field Phrase and PhrasePrefix     *)
(* return a query with one text term per phrase string, in the order of   *)
(* the strings, each bound to that field.                                  *)
C16_TextVariantsNeedTextField ==
    (call.op = "compile"
     /\ call.input.variant \in {"FuzzyTerm", "Phrase", "PhrasePrefix", "Regex"})
    => LET r == Resolved(call.input.field)
           text == r.tag = "Some" /\ r.val.field_type = "Str"
       IN  /\ ~text => ret = Err(WrongFieldType(call.input.field))
           /\ (text /\ call.input.variant \in {"Phrase", "PhrasePrefix"})
              => /\ ret.tag = "Ok"
                 /\ Len(ret.val.terms) = Len(call.input.phrases)
                 /\ \A i \in 1..Len(call.input.phrases) :
                       ret.val.terms[i] =
                          [field |-> r.val.field, typ |-> "Str",
                           text |-> call.input.phrases[i]]

----------------------------------------------------------------------------
(* MoreLikeThis.                                                           *)

(* The value of a pair is of the type its field is declared with. *)
SameType(pair) ==
    /\ Resolved(pair[1]).tag = "Some"
    /\ Resolved(pair[1]).val.field_type = pair[2].kind

(* The error is the wrong-field-type error of field f: the typed error or  *)
(* its message.                                                            *)
NamesField(err, f) ==
    \/ err = [kind |-> "WrongFieldType", field |-> f]
    \/ err = [kind |-> "Message",
              message |-> <<"wrong field type for field: ", f>>]

(* The values of the pairs that name field id, in the order of the pairs. *)
RECURSIVE ValuesOf(_, _, _)
ValuesOf(pairs, n, id) ==
    IF n = 0 THEN <<>>
    ELSE IF Resolved(pairs[n][1]).val.field = id
    THEN Append(ValuesOf(pairs, n - 1, id), pairs[n][2])
    ELSE ValuesOf(pairs, n - 1, id)

(* C17: compiling MoreLikeThis fails, with the wrong-field-type error of   *)
(* the field and with no query, as soon as a pair has a value that is not  *)
(* of the type of its field or names an absent field (the first such pair  *)
(* is the one reported); when every pair matches, the query holds for each *)
(* resolved field the values of the pairs that name it, in their order: a  *)
(* field named k times has k values.                                       *)
C17_MoreLikeThisAllOrNothing ==
    Compiling("MoreLikeThis")
    => LET pairs == call.input.fields
           bad == {i \in 1..Len(pairs) : ~SameType(pairs[i])}
           ids == {Resolved(pairs[i][1]).val.field : i \in 1..Len(pairs)}
       IN  /\ bad # {} =>
                 /\ ret.tag = "Err"
                 /\ NamesField(ret.err,
                       pairs[CHOOSE i \in bad : \A j \in bad : i <= j][1])
           /\ bad = {} =>
                 /\ ret.tag = "Ok"
                 /\ ret.val.q = "MoreLikeThisQuery"
                 /\ DOMAIN ret.val.doc_fields = ids
                 /\ \A id \in ids :
                       /\ ret.val.doc_fields[id] = ValuesOf(pairs, Len(pairs), id)
                       /\ Len(ret.val.doc_fields[id]) =
                             Cardinality({i \in 1..Len(pairs) :
                                 Resolved(pairs[i][1]).val.field = id})

(* MoreLikeThis of two strings for the Text field body compiled: the field *)
(* holds both values.                                                      *)
C17_Witness ==
    /\ Compiling("MoreLikeThis")
    /\ Len(call.input.fields) = 2
    /\ call.input.fields[1] = <<"body", StrValue(Shoes)>>
    /\ call.input.fields[2] = <<"body", StrValue(Shoe)>>
    /\ Resolved("body") = Some([field_type |-> "Str", field |-> 1])
    /\ ret.tag = "Ok"
    /\ ret.val.doc_fields[1] = <<StrValue(Shoes), StrValue(Shoe)>>

----------------------------------------------------------------------------
(* Boolean.                                                                *)

(* A sub-query compiled on its own, with a parser of its own. *)
CompiledAlone(input) == into_tantivy_query(input, schema.val, <<>>).res

(* The clauses a list of sub-queries must give: each compiled sub-query    *)
(* under the occurrence of its list.                                       *)
Clauses(occur, inputs) ==
    [i \in 1..Len(inputs) |-> <<occur, CompiledAlone(inputs[i]).val>>]

(* C18: compiling Boolean{must, should, must_not} whose sub-queries all    *)
(* compile gives one BooleanQuery with one clause per sub-query: the       *)
(* sub-queries of must as Must (required), then those of should as Should  *)
(* (optional), then those of must_not as MustNot (excluded).               *)
(* Boolean{must: [A]} is the single clause (Must, A), and the Boolean of   *)
(* three empty lists compiles, to no clause.                               *)
C18_BooleanOneClausePerSubQuery ==
    LET must == call.input.must
        should == call.input.should
        must_not == call.input.must_not
        all == must \o should \o must_not
    IN  (/\ Compiling("Boolean")
         /\ \A i \in 1..Len(all) : CompiledAlone(all[i]).tag = "Ok")
        => /\ ret.tag = "Ok"
           /\ ret.val.q = "BooleanQuery"
           /\ Len(ret.val.subqueries) = Len(must) + Len(should) + Len(must_not)
           /\ ret.val.subqueries =
                 Clauses("Must", must) \o Clauses("Should", should)
                 \o Clauses("MustNot", must_not)
           /\ (Len(must) = 1 /\ should = <<>> /\ must_not = <<>>)
              => ret.val.subqueries = <<<<"Must", CompiledAlone(must[1]).val>>>>
           /\ all = <<>> => ret.val.subqueries = <<>>

(* A Boolean with a required term on body and an excluded boosted query    *)
(* compiled to two clauses.                                                *)
C18_Witness ==
    /\ Compiling("Boolean")
    /\ call.input.must = <<Term(Some("body"), StrValue(Shoes))>>
    /\ call.input.should = <<>>
    /\ call.input.must_not = <<Boost(Empty, Two)>>
    /\ ret.tag = "Ok"
    /\ ret.val.subqueries[1][1] = "Must"
    /\ ret.val.subqueries[1][2].q = "TermQuery"
    /\ ret.val.subqueries[2] = <<"MustNot", BoostQuery_new(EmptyQuery, Two)>>

----------------------------------------------------------------------------
(* Field configuration from JSON.                                          *)

(* The keys a family recognises. *)
RecognisedKeys(family) ==
    CASE family = "Text" ->
             {"indexed", "fast", "stored", "fieldnorms", "tokenizer",
              "record", "normalizer"}
      [] family = "Json" ->
             {"indexed", "fast", "stored", "expand_dots", "tokenizer",
              "record", "normalizer"}
      [] OTHER -> {"indexed", "fast", "stored"}

(* The documented configuration of an object that gives no key. *)
DocumentedDefaults(family) ==
    CASE family = "Text" ->
             [family |-> "Text", indexed |-> TRUE, fast |-> FALSE,
              stored |-> TRUE, fieldnorms |-> TRUE, tokenizer |-> "default",
              record |-> "WithFreqsAndPositions", normalizer |-> "raw"]
      [] family = "Json" ->
             [family |-> "Json", indexed |-> TRUE, fast |-> FALSE,
              stored |-> TRUE, expand_dots |-> TRUE, tokenizer |-> "default",
              record |-> "WithFreqsAndPositions", normalizer |-> "raw"]
      [] OTHER ->
             [family |-> family, indexed |-> TRUE, fast |-> TRUE,
              stored |-> TRUE]

(* The two written forms of the raw tokenizer: the object that gives its   *)
(* type, which from_json_value reads, and the name of its variant, which   *)
(* the derived Deserialize reads.                                          *)
RawTokenizerForms == {JObject([type |-> JString("raw")]), JString("Raw")}

(* What a well-formed value of a key stands for. *)
Meaning(key, value) ==
    CASE key \in BoolKeys -> value.b
      [] key = "tokenizer" -> "raw"
      [] value = JString("basic") -> "Basic"
      [] value = JString("lowercase") -> "lowercase"

(* An object with recognised keys only, each well-formed: a boolean key    *)
(* holds a boolean and the tokenizer key a written form of a tokenizer.    *)
WellFormed(family, value) ==
    /\ value.j = "object"
    /\ DOMAIN value.members \subseteq RecognisedKeys(family)
    /\ \A k \in DOMAIN value.members :
          /\ k \in BoolKeys => value.members[k].j = "bool"
          /\ k = "tokenizer" => value.members[k] \in RawTokenizerForms

(* The configuration of a well-formed object: the keys it gives, and the   *)
(* documented default of every key it omits.                               *)
Configured(family, value) ==
    [k \in DOMAIN DocumentedDefaults(family) |->
        IF k \in DOMAIN value.members
        THEN Meaning(k, value.members[k])
        ELSE DocumentedDefaults(family)[k]]

(* The call decodes the tagged form {family: content}. *)
DecodesTagged ==
    /\ call.op = "from_json"
    /\ call.value.j = "object"
    /\ Cardinality(DOMAIN call.value.members) = 1
    /\ DOMAIN call.value.members \subseteq Families

TaggedFamily == CHOOSE f \in DOMAIN call.value.members : TRUE

TaggedContent == call.value.members[TaggedFamily]

(* C19: for each family and each object that omits any subset of the       *)
(* recognised keys (the keys it gives being well-formed), the parser of    *)
(* the family returns the configuration with the documented default in     *)
(* every omitted key, and from_json on the tagged form of the same object  *)
(* returns the same configuration.                                         *)
C19_OmittedKeysTakeDefaults ==
    /\ (call.op = "family_from_json" /\ WellFormed(call.family, call.value))
       => /\ ret = Ok(Configured(call.family, call.value))
          /\ from_json(Tagged(call.family, call.value)) = ret
    /\ (DecodesTagged /\ WellFormed(TaggedFamily, TaggedContent))
       => /\ ret = Ok(Configured(TaggedFamily, TaggedContent))
          /\ family_from_json(TaggedFamily, TaggedContent) = ret

(* The same for the objects that give no tokenizer: every omitted key,    *)
(* the tokenizer among them, takes its documented default in both readers, *)
(* and the two return the same configuration.                              *)
C19_ReadersAgreeWithoutTokenizer ==
    /\ (/\ call.op = "family_from_json"
        /\ WellFormed(call.family, call.value)
        /\ "tokenizer" \notin DOMAIN call.value.members)
       => /\ ret = Ok(Configured(call.family, call.value))
          /\ from_json(Tagged(call.family, call.value)) = ret
    /\ (/\ DecodesTagged
        /\ WellFormed(TaggedFamily, TaggedContent)
        /\ "tokenizer" \notin DOMAIN TaggedContent.members)
       => /\ ret = Ok(Configured(TaggedFamily, TaggedContent))
          /\ family_from_json(TaggedFamily, TaggedContent) = ret

(* An object that gives a tokenizer is read by one reader only, whichever  *)
(* form the tokenizer is written in: the parser of the family refuses the  *)
(* name of the variant, and from_json stops on the object with a type.     *)
C19_TokenizerReadByOneReader ==
    /\ (/\ call.op = "family_from_json"
        /\ WellFormed(call.family, call.value)
        /\ "tokenizer" \in DOMAIN call.value.members)
       => (ret.tag = "Ok")
              # (from_json(Tagged(call.family, call.value)).tag = "Ok")
    /\ (/\ DecodesTagged
        /\ WellFormed(TaggedFamily, TaggedContent)
        /\ "tokenizer" \in DOMAIN TaggedContent.members)
       => (ret.tag = "Ok")
              # (family_from_json(TaggedFamily, TaggedContent).tag = "Ok")

(* text_from_json of {"tokenizer": {"type": "raw"}} returned the Text      *)
(* configuration with the raw tokenizer and the defaults of the six other  *)
(* keys, and from_json of {"Text": {"tokenizer": {"type": "raw"}}} stops.  *)
C19_TokenizerObjectRefusedByTagged ==
    /\ call.op = "family_from_json"
    /\ call.family = "Text"
    /\ call.value = JObject([tokenizer |-> JObject([type |-> JString("raw")])])
    /\ ret = Ok([family |-> "Text", indexed |-> TRUE, fast |-> FALSE,
                 stored |-> TRUE, fieldnorms |-> TRUE, tokenizer |-> "raw",
                 record |-> "WithFreqsAndPositions", normalizer |-> "raw"])
    /\ from_json(Tagged("Text", call.value)).tag = "Panic"

(* A value the parser of the family must refuse: no object, a boolean key  *)
(* that holds no boolean, or a key the family does not recognise.          *)
Malformed(family, value) ==
    \/ value.j # "object"
    \/ \E k \in DOMAIN value.members \cap BoolKeys : value.members[k].j # "bool"
    \/ \E k \in DOMAIN value.members : k \notin RecognisedKeys(family)

(* C20: parsing a malformed configuration fails, with an error returned by *)
(* the parser of the family, and yields no configuration in either reader. *)
C20_MalformedConfigurationFails ==
    /\ (call.op = "family_from_json" /\ Malformed(call.family, call.value))
       => ret.tag = "Err"
    /\ (DecodesTagged /\ Malformed(TaggedFamily, TaggedContent))
       => ret.tag # "Ok"

----------------------------------------------------------------------------
(* Round trip of a field configuration.                                    *)

(* The document of a documented default. *)
DefaultJson(family, key) ==
    CASE key = "tokenizer" -> JString("Default")
      [] key = "record" -> JString("position")
      [] key = "normalizer" -> JString("raw")
      [] OTHER -> JBool(DocumentedDefaults(family)[key])

(* The tagged document with every recognised key explicit: the keys the    *)
(* content gives, and the documented default of every key it omits.        *)
FullySpecified(family, content) ==
    Tagged(family,
           JObject([k \in RecognisedKeys(family) |->
                       IF k \in DOMAIN content.members
                       THEN content.members[k]
                       ELSE DefaultJson(family, k)]))

(* The source of the encoded configuration is a valid tagged document of   *)
(* one of the five families with keys.                                     *)
EncodedTagged ==
    /\ call.op = "to_value"
    /\ call.source.j = "object"
    /\ DOMAIN call.source.members \subseteq Families

SourceFamily == CHOOSE f \in DOMAIN call.source.members : TRUE

SourceContent == call.source.members[SourceFamily]

(* C21: for every valid tagged configuration document, decoding it,        *)
(* encoding the result (every key explicit) and decoding again gives the   *)
(* configuration that decoding the fully specified document gives; for     *)
(* Ctid, which has no keys, the second decoding gives Ctid again.          *)
C21_ConfigRoundTrip ==
    /\ (EncodedTagged /\ WellFormed(SourceFamily, SourceContent))
       => /\ ret.val.members[SourceFamily].j = "object"
          /\ DOMAIN ret.val.members[SourceFamily].members
                = RecognisedKeys(SourceFamily)
          /\ from_json(ret.val)
                = from_json(FullySpecified(SourceFamily, SourceContent))
          /\ from_json(ret.val) = Ok(call.config)
    /\ (call.op = "to_value" /\ call.config = Ctid)
       => ret = Ok(JString("Ctid")) /\ from_json(ret.val) = Ok(Ctid)

(* {"Text": {"fast": true}} was decoded and encoded: the encoding carries  *)
(* all seven keys, fast as given and stored as defaulted.                  *)
C21_Witness ==
    /\ call.op = "to_value"
    /\ call.source = Tagged("Text", JObject([fast |-> JBool(TRUE)]))
    /\ Cardinality(DOMAIN ret.val.members["Text"].members) = 7
    /\ ret.val.members["Text"].members["fast"] = JBool(TRUE)
    /\ ret.val.members["Text"].members["stored"] = JBool(TRUE)
    /\ ret.val.members["Text"].members["tokenizer"] = JString("Default")

----------------------------------------------------------------------------
(* Round trip of a query input.                                            *)

(* The literal is of a kind that is not read back as written: a date, a    *)
(* facet, bytes and an address are written as a text, an i64 that is not   *)
(* below zero as a PosInt, a float that is not finite as null and a JSON   *)
(* object and a pre-tokenized string as an object, which no literal is     *)
(* read from.                                                              *)
ChangesKind(value) ==
    \/ value.kind \in {"Date", "Facet", "Bytes", "IpAddr", "JsonObject",
                       "PreTokStr"}
    \/ value.kind = "I64" /\ ~IsNegative(value.i64)
    \/ value.kind = "F64" /\ value.f64.class # "finite"

(* C22: decoding the encoding of a query input gives the input back.       *)
C22_QueryRoundTrip ==
    call.op = "decode" => ret = Ok(call.input)

(* The same for the literals that keep their kind: a Term with a string,   *)
(* an unsigned integer, an i64 below zero, a finite float or a boolean is  *)
(* read back as written, and so is every input that carries no literal     *)
(* and no float.                                                           *)
C22_RoundTripOfKeptKinds ==
    /\ (call.op = "decode" /\ call.input.variant = "Term"
           /\ ~ChangesKind(call.input.value))
       => ret = Ok(call.input)
    /\ (call.op = "decode"
           /\ call.input.variant \in {"All", "Empty", "FastFieldRangeWeight",
                  "FuzzyTerm", "Phrase", "PhrasePrefix", "Regex", "Parse"})
       => ret = Ok(call.input)

(* Term{field: "body", value: Date(2024-07-10T12:00:00Z)} was written and  *)
(* read back as the Term of the string "2024-07-10T12:00:00Z".             *)
C22_DateReadBackAsString ==
    /\ call.op = "decode"
    /\ call.input = Term(Some("body"), DateValue(19914, 43200, 0))
    /\ ret = Ok(Term(Some("body"), StrValue(DateSeconds)))

----------------------------------------------------------------------------
(* Type inference.                                                         *)

(* The logical type the built-in types of the statement map to: integer    *)
(* widths, float and decimal, date, time and timestamp, text, varchar and  *)
(* uuid, json and jsonb, bool.                                             *)
StatedType ==
    [INT2OID |-> "I64", INT4OID |-> "I64", INT8OID |-> "I64",
     FLOAT4OID |-> "F64", FLOAT8OID |-> "F64", NUMERICOID |-> "F64",
     DATEOID |-> "Date", TIMEOID |-> "Date", TIMETZOID |-> "Date",
     TIMESTAMPOID |-> "Date", TIMESTAMPTZOID |-> "Date",
     TEXTOID |-> "Text", VARCHAROID |-> "Text", UUIDOID |-> "Text",
     JSONOID |-> "Json", JSONBOID |-> "Json", BOOLOID |-> "Bool"]

(* The object identifier types, which map to the unsigned integer type. *)
UnsignedBuiltIns == {"OIDOID", "XIDOID"}

IsStated(pg_oid) == pg_oid.pg = "BuiltIn" /\ pg_oid.builtin \in DOMAIN StatedType

IsUnsigned(pg_oid) == pg_oid.pg = "BuiltIn" /\ pg_oid.builtin \in UnsignedBuiltIns

(* C23 as stated: every built-in type of the statement maps to its logical *)
(* type, and every other type identifier, built-in or not, yields the      *)
(* unsupported-type error.                                                 *)
C23_InferenceAsStated ==
    call.op = "try_from" =>
        IF IsStated(call.pg_oid)
        THEN ret = Ok(StatedType[call.pg_oid.builtin])
        ELSE ret = Err(InvalidPgOid(call.pg_oid))

(* C23: type inference always returns; every built-in type of the          *)
(* statement maps to its one logical type, oid and xid map to the unsigned *)
(* integer type, and every other type identifier, built-in or not, yields  *)
(* the unsupported-type error that carries the identifier, never a type.   *)
C23_InferenceTotalNoDefault ==
    call.op = "try_from" =>
        /\ ret.tag \in {"Ok", "Err"}
        /\ IsStated(call.pg_oid) => ret = Ok(StatedType[call.pg_oid.builtin])
        /\ IsUnsigned(call.pg_oid) => ret = Ok("U64")
        /\ (~IsStated(call.pg_oid) /\ ~IsUnsigned(call.pg_oid))
               => ret = Err(InvalidPgOid(call.pg_oid))

(* The type of a bytea column and of a custom type were asked for and the  *)
(* error came back.                                                        *)
C23_Witness ==
    /\ call.op = "try_from"
    /\ call.pg_oid \in {BuiltIn("BYTEAOID"), BuiltIn("BPCHAROID")}
    /\ ret = Err(InvalidPgOid(call.pg_oid))

----------------------------------------------------------------------------
(* A schema shared by several threads.                                     *)

(* The calls that are done returned what the same call returns on the      *)
(* schema when made alone.                                                 *)
ReturnsAsSequential ==
    \A t \in Threads :
        threads[t].pc = "done" =>
            CASE threads[t].op = "resolve" ->
                     threads[t].result = as_field_type(schema.val, threads[t].name)
              [] threads[t].op = "fields" ->
                     threads[t].result = schema_fields(schema.val)
              [] threads[t].op = "compile" ->
                     threads[t].result
                       = into_tantivy_query(threads[t].input, schema.val, <<>>).res

(* The cache is the one the constructor wrote, or absent (the schema was   *)
(* read back from disk): nothing but the constructor has written it.       *)
CacheWrittenByConstructorOnly ==
    schema.val.lookup \in {build.val.lookup, None}

(* C24: no step of resolve, field iteration or compile, of any thread and  *)
(* in any interleaving, changes the shared schema (fields, key index, ctid *)
(* index, engine schema, cache populated or absent); the cache is written  *)
(* by the constructor only, so at most once; and every call returns what   *)
(* it returns when made alone.                                             *)
C24_SharedSchemaNeverModified ==
    /\ [][schema' = schema]_vars
    /\ [](CacheWrittenByConstructorOnly /\ ReturnsAsSequential)

(* On a schema without cache, one thread has resolved "body" while the     *)
(* other is between its read of the cache and its look-up.                 *)
C24_Witness ==
    /\ schema.val.lookup.tag = "None"
    /\ \E t, u \in Threads :
          /\ threads[t].pc = "done" /\ threads[t].op = "resolve"
          /\ threads[t].result.tag = "Some"
          /\ threads[u].pc = "lookup_get"

----------------------------------------------------------------------------
(* The ctid index.                                                         *)

(* The 0-based positions of the Ctid-configured declarations. *)
CtidPositions ==
    {i - 1 : i \in {j \in 1..Len(Declarations) : Declarations[j].config = Ctid}}

(* C25: after a successful build of declarations of which at least one is  *)
(* Ctid-configured, the ctid index of the schema is the position of the    *)
(* first of them.                                                          *)
C25_CtidIndexIsFirstCtid ==
    (Built /\ HasCtidDeclaration)
    => \A first \in CtidPositions :
          (\A other \in CtidPositions : first <= other)
          => build.val.ctid = first

(* With one Ctid-configured declaration the ctid index is its position,    *)
(* and with several it is the position of the last of them.                *)
C25_CtidIndexIsLastCtid ==
    (Built /\ HasCtidDeclaration)
    => \A last \in CtidPositions :
          (\A other \in CtidPositions : other <= last)
          => build.val.ctid = last

----------------------------------------------------------------------------
(* An unsigned literal on an integer field.  Numbers are beyond the        *)
(* integers of the checker, so a signed value is its sign with the limbs   *)
(* of its magnitude.                                                       *)

(* a - b - borrow on limbs i..1 of two four-limb numbers, a five-limb      *)
(* number when top = 1 (2^64): the limbs of the difference from i down.    *)
RECURSIVE SubLimbs(_, _, _, _)
SubLimbs(a, b, i, borrow) ==
    IF i = 0 THEN <<>>
    ELSE LET d == a[i] - b[i] - borrow
         IN  Append(SubLimbs(a, b, i - 1, IF d < 0 THEN 1 ELSE 0),
                    IF d < 0 THEN d + 65536 ELSE d)

(* 2^64 - u, for u above zero: the low four limbs of 0 - u with the borrow *)
(* taken from the 2^64.                                                    *)
TwoTo64Minus(u) == SubLimbs(<<0, 0, 0, 0>>, u, 4, 0)

(* limbs + 1 from limb i down, without the carry out. *)
RECURSIVE Increment(_, _)
Increment(limbs, i) ==
    IF i = 0 THEN limbs
    ELSE IF limbs[i] = 65535
    THEN Increment([limbs EXCEPT ![i] = 0], i - 1)
    ELSE [limbs EXCEPT ![i] = limbs[i] + 1]

(* The value of the 64 bits of an i64 (two's complement): below zero when  *)
(* the top bit is set, the magnitude then being the inverted bits plus one.*)
SignedValue(bits) ==
    IF bits[1] >= 32768
    THEN [negative |-> TRUE,
          magnitude |-> Increment([i \in 1..4 |-> 65535 - bits[i]], 4)]
    ELSE [negative |-> FALSE, magnitude |-> bits]

(* u when u < 2^63, u - 2^64 otherwise. *)
Reinterpreted(u) ==
    IF u[1] < 32768
    THEN [negative |-> FALSE, magnitude |-> u]
    ELSE [negative |-> TRUE, magnitude |-> TwoTo64Minus(u)]

(* C26: a qualified Term with an unsigned literal u on a field that        *)
(* resolves to the I64 type compiles, to the i64 term of that field whose  *)
(* value is u when u < 2^63 and u - 2^64 otherwise; on a field that        *)
(* resolves to the U64 type it compiles to the u64 term u of that field.   *)
C26_UnsignedOnIntegerReinterpreted ==
    (/\ Compiling("Term")
     /\ call.input.field.tag = "Some"
     /\ Resolved(call.input.field.val).tag = "Some"
     /\ call.input.value.kind = "U64")
    => LET ft == Resolved(call.input.field.val).val
           u == call.input.value.u64
       IN  /\ ft.field_type = "I64"
              => /\ ret.tag = "Ok"
                 /\ ret.val.term.typ = "I64"
                 /\ ret.val.term.field = ft.field
                 /\ SignedValue(ret.val.term.i64) = Reinterpreted(u)
                 /\ value_to_term(ft.field, call.input.value, ft.field_type)
                       = Ok(ret.val.term)
           /\ ft.field_type = "U64"
              => ret.val.term = from_field_u64(ft.field, u)

(* Term{field: "id", value: 2^64 - 2} on an I64 field: the term is -2.     *)
C26_Witness ==
    /\ Compiling("Term")
    /\ call.input = Term(Some("id"), U64Value(<<65535, 65535, 65535, 65534>>))
    /\ ret.tag = "Ok"
    /\ ret.val.term.typ = "I64"
    /\ SignedValue(ret.val.term.i64)
          = [negative |-> TRUE, magnitude |-> <<0, 0, 0, 2>>]

----------------------------------------------------------------------------
(* The order of compilation of a composite.                                *)

(* The sub-queries of a composite in the order of the statement: must,     *)
(* then should, then must_not, or the disjuncts.                           *)
InOrder(input) ==
    IF input.variant = "Boolean"
    THEN input.must \o input.should \o input.must_not
    ELSE input.disjuncts

(* The positions of the sub-queries that fail when compiled alone. *)
Failing(subs) == {i \in 1..Len(subs) : CompiledAlone(subs[i]).tag # "Ok"}

(* The query strings of the Parse nodes among the first n sub-queries, in  *)
(* order (a sub-query of the inputs is a leaf or a Boost of Empty).        *)
RECURSIVE ParseStrings(_, _)
ParseStrings(subs, n) ==
    IF n = 0 THEN <<>>
    ELSE IF subs[n].variant = "Parse"
    THEN Append(ParseStrings(subs, n - 1), subs[n].query_string)
    ELSE ParseStrings(subs, n - 1)

(* C27: when a sub-query of a Boolean (must, should, must_not, each left   *)
(* to right) or of a DisjunctionMax (disjuncts left to right) fails, the   *)
(* compilation returns the failure of the first that fails and no query,   *)
(* and the parser was given the Parse nodes up to that sub-query and none  *)
(* that follows it; when none fails the parser was given every Parse node, *)
(* in that order.                                                          *)
C27_CompositeStopsAtFirstFailure ==
    (Compiling("Boolean") \/ Compiling("DisjunctionMax"))
    => LET subs == InOrder(call.input)
       IN  /\ \A first \in Failing(subs) :
                 (\A other \in Failing(subs) : first <= other)
                 => /\ ret = CompiledAlone(subs[first])
                    /\ ret.tag # "Ok"
                    /\ call.parser = ParseStrings(subs, first)
           /\ Failing(subs) = {}
                 => ret.tag = "Ok" /\ call.parser = ParseStrings(subs, Len(subs))

(* Boolean{must: [Term on an absent field], should: [Parse]}: the error of *)
(* the term came back and the parser was not given the string.             *)
C27_Witness ==
    /\ Compiling("Boolean")
    /\ call.input.must = <<Term(Some("missing"), StrValue(Shoes))>>
    /\ call.input.should = <<Parse(BodyShoes)>>
    /\ ret = Err(NonIndexedField("missing"))
    /\ call.parser = <<>>

----------------------------------------------------------------------------
(* A leaf that names an absent field.                                      *)

Absent(f) == Resolved(f).tag = "None"

(* The leaves with one field name whose absence is a WrongFieldType. *)
WrongFieldTypeLeaves ==
    {"FastFieldRangeWeight", "FuzzyTerm", "Phrase", "PhrasePrefix", "Range",
     "Regex"}

(* The first pair of the absent name: a pair that names an absent field    *)
(* while every pair before it is accepted (fails(p) tells of a pair that   *)
(* it is refused).                                                         *)
FirstRefusedNamesAbsent(pairs, refused, i) ==
    /\ i \in 1..Len(pairs)
    /\ Absent(pairs[i][1])
    /\ \A j \in 1..(i - 1) : j \notin refused

(* The pairs of a TermSet that fail as a qualified Term. *)
RefusedTerms(pairs) == {i \in 1..Len(pairs) : Alone(pairs)[i].tag # "Ok"}

(* The pairs of a MoreLikeThis whose value is not of the type of the field.*)
RefusedLikes(pairs) == {i \in 1..Len(pairs) : ~SameType(pairs[i])}

(* C28: a leaf that names a field absent from the schema fails and no      *)
(* query is returned: with NonIndexedField of that name when the leaf is a *)
(* qualified Term or the first refused pair of a TermSet, and with         *)
(* WrongFieldType of that name when it is a FastFieldRangeWeight,          *)
(* FuzzyTerm, Phrase, PhrasePrefix, Range or Regex; for the first refused  *)
(* pair of a MoreLikeThis the WrongFieldType of that name is raised as its *)
(* message, the fixed text with the field name.                            *)
C28_AbsentFieldErrorKinds ==
    /\ (Compiling("Term") /\ call.input.field.tag = "Some"
           /\ Absent(call.input.field.val))
       => ret = Err(NonIndexedField(call.input.field.val))
    /\ Compiling("TermSet")
       => \A i \in 1..Len(call.input.terms) :
             FirstRefusedNamesAbsent(call.input.terms,
                                     RefusedTerms(call.input.terms), i)
             => ret = Err(NonIndexedField(call.input.terms[i][1]))
    /\ (call.op = "compile" /\ call.input.variant \in WrongFieldTypeLeaves
           /\ Absent(call.input.field))
       => ret = Err(WrongFieldType(call.input.field))
    /\ Compiling("MoreLikeThis")
       => \A i \in 1..Len(call.input.fields) :
             FirstRefusedNamesAbsent(call.input.fields,
                                     RefusedLikes(call.input.fields), i)
             => ret = Err([kind |-> "Message",
                           message |-> <<"wrong field type for field: ",
                                         call.input.fields[i][1]>>])

(* TermSet and MoreLikeThis whose second pair names the absent field       *)
(* "missing" after a pair on body that is accepted: one failed with        *)
(* NonIndexedField, the other with the wrong-field-type message.           *)
C28_Witness ==
    \/ /\ Compiling("TermSet")
       /\ call.input.terms = <<<<"body", StrValue(Shoes)>>,
                               <<"missing", StrValue(Shoes)>>>>
       /\ Resolved("body").tag = "Some"
       /\ ret = Err(NonIndexedField("missing"))
    \/ /\ Compiling("MoreLikeThis")
       /\ call.input.fields = <<<<"body", StrValue(Shoes)>>,
                                <<"missing", StrValue(Shoes)>>>>
       /\ Resolved("body").tag = "Some"
       /\ ret.tag = "Err" /\ ret.err.kind = "Message"

----------------------------------------------------------------------------
(* MoreLikeThis against qualified Term.                                    *)

(* The pair names a field of the schema of this physical type, with a      *)
(* literal of this kind.                                                   *)
IsPair(pair, field_type, kind) ==
    /\ Resolved(pair[1]).tag = "Some"
    /\ Resolved(pair[1]).val.field_type = field_type
    /\ pair[2].kind = kind

(* MoreLikeThis accepts exactly the lists whose pairs all have a literal   *)
(* of the kind that is the physical type of the field; the first pair it   *)
(* refuses is reported with the wrong-field-type error of its field.       *)
MoreLikeThisAcceptsSameTypeOnly ==
    Compiling("MoreLikeThis")
    => LET pairs == call.input.fields
       IN  /\ ret.tag = "Ok" <=> \A i \in 1..Len(pairs) : SameType(pairs[i])
           /\ \A i \in 1..Len(pairs) :
                 (/\ \A j \in 1..(i - 1) : SameType(pairs[j])
                  /\ \/ IsPair(pairs[i], "I64", "U64")
                     \/ IsPair(pairs[i], "Date", "Str"))
                 => ret.tag = "Err" /\ NamesField(ret.err, pairs[i][1])
           /\ (\A i \in 1..Len(pairs) :
                    IsPair(pairs[i], "JsonObject", "JsonObject"))
              => ret.tag = "Ok" /\ ret.val.q = "MoreLikeThisQuery"

(* The pair of the qualified Term being compiled. *)
TermPair == <<call.input.field.val, call.input.value>>

QualifiedTerm == Compiling("Term") /\ call.input.field.tag = "Some"

(* Qualified Term on (Integer field, unsigned literal) compiles, and on    *)
(* (Json field, structured-object literal) aborts.                         *)
TermOnUnsignedAndObject ==
    QualifiedTerm
    => /\ IsPair(TermPair, "I64", "U64")
          => ret.tag = "Ok" /\ ret.val.q = "TermQuery"
       /\ IsPair(TermPair, "JsonObject", "JsonObject")
          => ret = Panic("json cannot be converted to term")

(* C29 (as stated): MoreLikeThis accepts a pair only when the literal kind *)
(* is exactly the physical type of the field, so it rejects (Integer       *)
(* field, unsigned literal) and (Date field, string literal) with          *)
(* WrongFieldType and accepts (Json field, structured-object literal);     *)
(* qualified Term compiles the first two and aborts on the third.          *)
C29_TermCompilesWhatMoreLikeThisRejects ==
    /\ MoreLikeThisAcceptsSameTypeOnly
    /\ TermOnUnsignedAndObject
    /\ (QualifiedTerm /\ IsPair(TermPair, "Date", "Str"))
       => ret.tag = "Ok" /\ ret.val.q = "TermQuery"

(* C29: MoreLikeThis accepts a pair only when the literal kind is exactly  *)
(* the physical type of the field, so it rejects (Integer field, unsigned  *)
(* literal) and (Date field, string literal) with WrongFieldType and       *)
(* accepts (Json field, structured-object literal); qualified Term         *)
(* compiles (Integer field, unsigned literal), compiles (Date field,       *)
(* string literal) exactly when the string is a timestamp in one of the    *)
(* two patterns and fails with FieldTypeMismatch otherwise, and aborts on  *)
(* (Json field, structured-object literal).                                *)
C29_TermCompilesDateStringWhenTimestamp ==
    /\ MoreLikeThisAcceptsSameTypeOnly
    /\ TermOnUnsignedAndObject
    /\ (QualifiedTerm /\ IsPair(TermPair, "Date", "Str"))
       => IF ParsesAsTimestamp(call.input.value.text)
          THEN ret.tag = "Ok" /\ ret.val.q = "TermQuery"
          ELSE ret = Err(FieldTypeMismatch)

(* MoreLikeThis of the one pair ("x", "2024-07-10T12:00:00Z") on a schema  *)
(* where x is a Date field was refused, and the qualified Term of the same *)
(* pair compiles on that schema.                                           *)
C29_Witness ==
    /\ Compiling("MoreLikeThis")
    /\ call.input.fields = <<<<"x", StrValue(DateSeconds)>>>>
    /\ IsPair(call.input.fields[1], "Date", "Str")
    /\ ret.tag = "Err" /\ NamesField(ret.err, "x")
    /\ compile_term_qualified("x", StrValue(DateSeconds), schema.val).tag = "Ok"

----------------------------------------------------------------------------
(* String literals in Term and TermSet.                                    *)

(* The text term of a string, bound to a field. *)
TextTerm(field, text) == [field |-> field, typ |-> "Str", text |-> text]

(* The pair names a field of the schema that is not a Date field, with a   *)
(* string literal.                                                         *)
StringOffDate(pair) ==
    /\ pair[2].kind = "Str"
    /\ Resolved(pair[1]).tag = "Some"
    /\ Resolved(pair[1]).val.field_type # "Date"

(* The fields of the schema an unqualified Term of this string gives a     *)
(* term for: every field that is not a Date field, and every Date field    *)
(* when the string is a timestamp.                                         *)
Yielding(text) ==
    {i \in 1..Len(schema.val.fields) :
        \/ schema_fields(schema.val)[i].field_type # "Date"
        \/ ParsesAsTimestamp(text)}

(* C30: term encoding of a string literal is rejected only on Date fields. *)
(* A qualified Term with a string on a field of any other physical type    *)
(* compiles to the text term of the string bound to that field, and on a   *)
(* Date field it fails (with FieldTypeMismatch) exactly when the string is *)
(* no timestamp; a TermSet whose pairs are all strings on fields that are  *)
(* not Date fields compiles to their text terms; an unqualified Term with  *)
(* a string compiles to one term for every schema field that is not a Date *)
(* field (the text term bound to it; the ctid and key fields included)     *)
(* plus one date term for every Date field when the string is a timestamp. *)
C30_StringRejectedOnDateOnly ==
    /\ (QualifiedTerm /\ StringOffDate(TermPair))
       => ret = Ok([q |-> "TermQuery",
                    term |-> TextTerm(Resolved(TermPair[1]).val.field,
                                      TermPair[2].text),
                    record_option |-> "WithFreqsAndPositions"])
    /\ (QualifiedTerm /\ IsPair(TermPair, "Date", "Str"))
       => IF ParsesAsTimestamp(TermPair[2].text)
          THEN ret.tag = "Ok" /\ ret.val.term.typ = "Date"
          ELSE ret = Err(FieldTypeMismatch)
    /\ (/\ Compiling("TermSet")
        /\ \A i \in 1..Len(call.input.terms) :
              StringOffDate(call.input.terms[i]))
       => ret = Ok([q |-> "TermSetQuery",
                    terms |-> [i \in 1..Len(call.input.terms) |->
                        TextTerm(Resolved(call.input.terms[i][1]).val.field,
                                 call.input.terms[i][2].text)]])
    /\ (/\ Compiling("Term")
        /\ call.input.field.tag = "None"
        /\ call.input.value.kind = "Str")
       => LET all == schema_fields(schema.val)
              text == call.input.value.text
          IN  /\ ret.tag = "Ok"
              /\ ret.val.q = "TermSetQuery"
              /\ Len(ret.val.terms) = Cardinality(Yielding(text))
              /\ \A i \in 1..Len(all) :
                    LET mine == {k \in 1..Len(ret.val.terms) :
                                    ret.val.terms[k].field = all[i].field}
                    IN  IF all[i].field_type # "Date"
                        THEN \A k \in mine :
                                 ret.val.terms[k] = TextTerm(all[i].field, text)
                        ELSE \A k \in mine :
                                 /\ ret.val.terms[k].typ = "Date"
                                 /\ ParsesAsTimestamp(text)
              /\ \A i \in Yielding(text) :
                    \E k \in 1..Len(ret.val.terms) :
                        ret.val.terms[k].field = all[i].field

(* The unqualified Term of "shoes" compiled on a schema with a Date field  *)
(* and an integer key: it holds a text term bound to the key, one bound to *)
(* the ctid field, and none for the Date field.                            *)
C30_Witness ==
    /\ Compiling("Term")
    /\ call.input.field.tag = "None"
    /\ call.input.value = StrValue(Shoes)
    /\ \E i \in 1..Len(schema.val.fields) :
          schema_fields(schema.val)[i].field_type = "Date"
    /\ schema.val.key # schema.val.ctid
    /\ schema_fields(schema.val)[schema.val.key + 1].field_type = "I64"
    /\ ret.tag = "Ok"
    /\ Len(ret.val.terms) = Len(schema.val.fields) - 1
    /\ \E k \in 1..Len(ret.val.terms) :
          ret.val.terms[k] =
              TextTerm(schema.val.fields[schema.val.key + 1].id, Shoes)
    /\ \E k \in 1..Len(ret.val.terms) :
          ret.val.terms[k] =
              TextTerm(schema.val.fields[schema.val.ctid + 1].id, Shoes)

====
